---- MODULE Spec2Model ----
(***************************************************************************)
(* OpenColorIO op-sequence optimizer (OpOptimizers.cpp) and the OpData     *)
(* parameter payloads it works on (CDLOpData.cpp, MatrixOpData.cpp,        *)
(* FixedFunctionOpData.cpp).                                               *)
(*                                                                         *)
(* An Op is a record [type, style, p, dyn]:                                *)
(*   type   the OpData kind                                                *)
(*   style  the CDL style, or the transform direction of a Log / Lut1D     *)
(*   p      the parameter payload, as a small integer:                     *)
(*            Matrix    a diagonal scale of 2^p (p = 0 is the identity)    *)
(*            Exponent  an exponent of 2^p                                 *)
(*            CDL       an index into the CDL parameter sets (CDLParams)   *)
(*            Lut1D     the identity of the sampled array                  *)
(*   dyn    TRUE when the op exposes a dynamic property                    *)
(* Doubles are modelled by integers; a pixel value is a point of the       *)
(* lattice {0} \cup {+-2^j}, written [s |-> sign, j |-> exponent], on      *)
(* which scaling by 2^k and clamping are exact.                            *)
(***************************************************************************)
EXTENDS Integers, Sequences, FiniteSets, TLC

VARIABLES
    ops,          \* OpRcPtrVec being optimized (in place)
    input,        \* ops as they were when the running/last call was entered
    fn,           \* the entry point called by the client
    inBitDepth,   \* argument of OptimizeOpVec / OptimizeSeparablePrefix
    oFlags,       \* argument of OptimizeOpVec: TRUE iff COMP_SEPARABLE_PREFIX set
    pc,           \* position inside the running call
    firstindex,   \* cursor of RemoveInverseOps / CombineOps
    count,        \* local count of the running scan
    noops, inverseops, combines,   \* per-pass results in OptimizeOpVec
    passes,       \* OptimizeOpVec::passes
    bodyRuns,     \* number of executions of the pass body in this call
    afterLoop,    \* ops when the pass loop was left
    loopExit,     \* how the pass loop was left: "none", "break", "budget"
    logged,       \* TRUE iff the max-passes diagnostic was written
    calls,        \* number of client calls made so far
    prevExit,     \* loopExit of the previous OptimizeOpVec call
    cdl,          \* a CDLOpData object (or NoObject)
    ff,           \* a FixedFunctionOpData object (or NoObject)
    lastOp,       \* last constructor / setter / validate call on an OpData
    raised,       \* TRUE iff that call threw an Exception
    rawOps,       \* the op list handed to GPUProcessor::Impl::finalize
    m_ops,        \* GPUProcessor::Impl::m_ops
    m_props,      \* op id and kind |-> id of the op owning the property object
    propValue,    \* owning op id and kind |-> value of the property object
    m_cacheID,    \* GPUProcessor::Impl::m_cacheID
    m_hasChannelCrosstalk,  \* GPUProcessor::Impl::m_hasChannelCrosstalk
    m_mutex,      \* GPUProcessor::Impl::m_mutex: its holder, or Unlocked
    handles,      \* property handle the client holds |-> last value set (0: none)
    thr,          \* each thread's position in the call it is making
    combineTable, \* canCombineWith / combineWith of the ops of an abstract Op class
    range,        \* the RangeOpData handed to GetRangeRenderer (or NoObject)
    renderer,     \* class of the RangeOpCPU that GetRangeRenderer returned
    rangeRaised,  \* TRUE iff GetRangeRenderer threw
    inImg,        \* one RGBA pixel of the image handed to apply
    outImg,       \* the pixel apply wrote (<<>>: not applied yet)
    shaderCode,   \* statements GetRangeGPUShaderProgram added to the shader
    allocData,    \* AllocationData argument of CreateAllocationOps
    allocDir,     \* TransformDirection argument of CreateAllocationOps
    allocOps,     \* the ops argument of CreateAllocationOps (in place)
    allocInput,   \* allocOps as it was when the call was entered
    allocPc       \* position inside CreateAllocationOps

optVars == <<ops, input, fn, inBitDepth, oFlags, pc, firstindex, count,
             noops, inverseops, combines, passes, bodyRuns, afterLoop,
             loopExit, logged, calls, prevExit>>
dataVars == <<cdl, ff, lastOp, raised>>
gpuVars == <<rawOps, m_ops, m_props, propValue, m_cacheID,
             m_hasChannelCrosstalk, m_mutex, handles, thr>>
rangeVars == <<range, renderer, rangeRaised, inImg, outImg, shaderCode>>
allocVars == <<allocData, allocDir, allocOps, allocInput, allocPc>>
ifaceVars == <<combineTable, rangeVars, allocVars>>
vars == <<ops, input, fn, inBitDepth, oFlags, pc, firstindex, count,
          noops, inverseops, combines, passes, bodyRuns, afterLoop,
          loopExit, logged, calls, prevExit, cdl, ff, lastOp, raised,
          rawOps, m_ops, m_props, propValue, m_cacheID,
          m_hasChannelCrosstalk, m_mutex, handles, thr, combineTable,
          range, renderer, rangeRaised, inImg, outImg, shaderCode,
          allocData, allocDir, allocOps, allocInput, allocPc>>

(***************************************************************************)
(* Bounds of the model.                                                    *)
(***************************************************************************)
MaxLen == 3        \* longest freely chosen input sequence
MaxNest == 3        \* deepest freely chosen nest A, B, ..., B', A'
MaxDepth == 9       \* deepest alternating CDL / scale nest among the inputs
MaxCalls == 2      \* client calls per behaviour (a call and its re-run)

MAX_OPTIMIZATION_PASSES == 8

(***************************************************************************)
(* Small helpers.                                                          *)
(***************************************************************************)
Max(a, b) == IF a >= b THEN a ELSE b

\* opVec.erase(opVec.begin() + i, opVec.begin() + i + n), i counted from 0
Erase(opVec, i, n) == SubSeq(opVec, 1, i) \o SubSeq(opVec, i + n + 1, Len(opVec))

\* opVec.insert(opVec.begin() + i, tmpops.begin(), tmpops.end()), i from 0
Insert(opVec, i, tmpops) ==
    SubSeq(opVec, 1, i) \o tmpops \o SubSeq(opVec, i + 1, Len(opVec))

(***************************************************************************)
(* CDLOpData: style, per-channel slope / offset / power, saturation.       *)
(***************************************************************************)
CDLStyles == {"v1.2_Fwd", "v1.2_Rev", "noClampFwd", "noClampRev"}

ChannelParams(v) == <<v, v, v>>
kOneParams == ChannelParams(1)
kZeroParams == ChannelParams(0)

CDLOpData(style, slopeParams, offsetParams, powerParams, saturation) ==
    [style |-> style, slope |-> slopeParams, offset |-> offsetParams,
     power |-> powerParams, sat |-> saturation]

CDL_isIdentity(d) ==
    /\ d.slope = kOneParams
    /\ d.offset = kZeroParams
    /\ d.power = kOneParams
    /\ d.sat = 1

CDL_isClamping(d) ==
    CASE d.style = "v1.2_Fwd" -> TRUE
      [] d.style = "v1.2_Rev" -> TRUE
      [] d.style = "noClampFwd" -> FALSE
      [] d.style = "noClampRev" -> FALSE

\* variant: the style is not consulted
CDL_isNoOp_IgnoringClamping(d) == CDL_isIdentity(d)

CDL_isNoOp(d) == CDL_isIdentity(d) /\ ~CDL_isClamping(d)

CDL_hasChannelCrosstalk(d) == d.sat # 1

CDL_inverse(d) ==
    CASE d.style = "v1.2_Fwd" -> [d EXCEPT !.style = "v1.2_Rev"]
      [] d.style = "v1.2_Rev" -> [d EXCEPT !.style = "v1.2_Fwd"]
      [] d.style = "noClampFwd" -> [d EXCEPT !.style = "noClampRev"]
      [] d.style = "noClampRev" -> [d EXCEPT !.style = "noClampFwd"]

\* *r == *inverse(): style and all parameters equal
CDL_isInverse(d, r) == r = CDL_inverse(d)

\* the RangeOpData / MatrixOpData an identity CDL stands for:
\* "range" is Range(0, empty, 0, empty), "matrix" the identity matrix
CDL_getIdentityReplacement(d) ==
    CASE d.style \in {"v1.2_Fwd", "v1.2_Rev"} -> "range"
      [] d.style \in {"noClampFwd", "noClampRev"} -> "matrix"

(***************************************************************************)
(* The parameter sets the CDL ops of the pipelines carry.                  *)
(*   0: identity   1: slope 2   2: saturation 2 (channel crosstalk)        *)
(***************************************************************************)
CDLParams(p, style) ==
    CASE p = 0 -> CDLOpData(style, kOneParams, kZeroParams, kOneParams, 1)
      [] p = 1 -> CDLOpData(style, ChannelParams(2), kZeroParams, kOneParams, 1)
      [] OTHER -> CDLOpData(style, kOneParams, kZeroParams, kOneParams, 2)

(***************************************************************************)
(* MatrixOpData restricted to diagonal scale matrices without offsets:     *)
(* the matrix diag(2^k, 2^k, 2^k, 1) is written k.                         *)
(***************************************************************************)
Matrix_isIdentity(k) == k = 0

Matrix_isNoOp(k) == Matrix_isIdentity(k)

\* A.compose(B): the product B x A of two diagonal matrices
Matrix_compose(a, b) == a + b

(***************************************************************************)
(* Ops.                                                                    *)
(***************************************************************************)
Op(type, style, p, dyn) == [type |-> type, style |-> style, p |-> p, dyn |-> dyn]

ExponentOp(k) == Op("Exponent", "fwd", k, FALSE)
LogOp(dir) == Op("Log", dir, 0, FALSE)
ScaleOp(k) == Op("Matrix", "fwd", k, FALSE)
CDLOp(style, p) == Op("CDL", style, p, FALSE)
RangeOp == Op("Range", "fwd", 0, FALSE)
Lut1DOp(dir, p) == Op("Lut1D", dir, p, FALSE)
ExposureContrastOp(dyn) == Op("ExposureContrast", "fwd", 0, dyn)

cdlData(op) == CDLParams(op.p, op.style)

Op_isSameType(a, b) == a.type = b.type

Op_isNoOp(op) ==
    CASE op.type = "CDL" -> CDL_isNoOp(cdlData(op))
      [] op.type = "Matrix" -> Matrix_isNoOp(op.p)
      [] op.type = "Exponent" -> op.p = 0
      [] OTHER -> FALSE

OtherDir(dir) == IF dir = "fwd" THEN "inv" ELSE "fwd"

Op_isInverse(a, b) ==
    CASE a.type = "CDL" /\ b.type = "CDL" -> CDL_isInverse(cdlData(a), cdlData(b))
      [] a.type = "Exponent" /\ b.type = "Exponent" -> a.p + b.p = 0
      [] a.type = "Log" /\ b.type = "Log" -> b.style = OtherDir(a.style) /\ b.p = a.p
      [] a.type = "Lut1D" /\ b.type = "Lut1D" -> b.style = OtherDir(a.style) /\ b.p = a.p
      [] a.type = "Fit" /\ b.type = "Fit" -> b.style = OtherDir(a.style) /\ b.p = a.p
      [] OTHER -> FALSE

Op_canCombineWith(a, b) ==
    \/ a.type = "Matrix" /\ b.type = "Matrix"
    \/ a.type = "Exponent" /\ b.type = "Exponent"
    \/ a.type = "Abstract" /\ b.type = "Abstract" /\ combineTable[<<a.p, b.p>>].can

\* first->combineWith(tmpops, second): the ops appended to tmpops
Op_combineWith(a, b) ==
    CASE a.type = "Matrix" ->
            IF Matrix_isNoOp(Matrix_compose(a.p, b.p)) THEN <<>>
            ELSE <<ScaleOp(Matrix_compose(a.p, b.p))>>
      [] a.type = "Exponent" ->
            IF a.p + b.p = 0 THEN <<>> ELSE <<ExponentOp(a.p + b.p)>>
      [] a.type = "Abstract" -> combineTable[<<a.p, b.p>>].ops
      [] OTHER -> <<>>

Op_hasChannelCrosstalk(op) ==
    CASE op.type = "CDL" -> CDL_hasChannelCrosstalk(cdlData(op))
      [] op.type = "Lut3D" -> TRUE
      [] OTHER -> FALSE

Op_isDynamic(op) == op.dyn

(***************************************************************************)
(* OpOptimizers.cpp: the three scans of a pass.  Each scan is a loop over  *)
(* a state [ops, firstindex or iter, count]; the *Iter operator is one     *)
(* execution of the loop body, the *Loop operator runs the loop to its     *)
(* exit.                                                                   *)
(***************************************************************************)
\* static_cast<int>(opVec.size() - 1): -1 for an empty vector
SizeMinusOne(opVec) == Len(opVec) - 1

\* variant: a no-op is counted and stepped over, not erased
RemoveNoOpsIter_CountingOnly(s) ==
    IF Op_isNoOp(s.ops[s.iter + 1])
    THEN [ops |-> s.ops, iter |-> s.iter + 1, count |-> s.count + 1]
    ELSE [ops |-> s.ops, iter |-> s.iter + 1, count |-> s.count]

RemoveNoOpsIter(s) ==
    IF Op_isNoOp(s.ops[s.iter + 1])
    THEN [s EXCEPT !.ops = Erase(s.ops, s.iter, 1), !.count = s.count + 1]
    ELSE [s EXCEPT !.iter = s.iter + 1]

RECURSIVE RemoveNoOpsLoop(_)
RemoveNoOpsLoop(s) ==
    IF s.iter # Len(s.ops) THEN RemoveNoOpsLoop(RemoveNoOpsIter(s)) ELSE s

RemoveNoOps(opVec) == RemoveNoOpsLoop([ops |-> opVec, iter |-> 0, count |-> 0])

\* variant: the scan does not step back after erasing a pair
RemoveInverseOpsIter_NoStepBack(s) ==
    LET first == s.ops[s.firstindex + 1]
        second == s.ops[s.firstindex + 2]
    IN  IF Op_isSameType(first, second) /\ Op_isInverse(first, second)
        THEN [ops |-> Erase(s.ops, s.firstindex, 2),
              count |-> s.count + 1,
              firstindex |-> s.firstindex]
        ELSE [s EXCEPT !.firstindex = s.firstindex + 1]

RemoveInverseOpsIter(s) ==
    LET first == s.ops[s.firstindex + 1]
        second == s.ops[s.firstindex + 2]
    IN  IF Op_isSameType(first, second) /\ Op_isInverse(first, second)
        THEN [ops |-> Erase(s.ops, s.firstindex, 2),
              count |-> s.count + 1,
              firstindex |-> Max(0, s.firstindex - 1)]
        ELSE [s EXCEPT !.firstindex = s.firstindex + 1]

RECURSIVE RemoveInverseOpsLoop(_)
RemoveInverseOpsLoop(s) ==
    IF s.firstindex < SizeMinusOne(s.ops)
    THEN RemoveInverseOpsLoop(RemoveInverseOpsIter(s))
    ELSE s

RemoveInverseOps(opVec) ==
    RemoveInverseOpsLoop([ops |-> opVec, firstindex |-> 0, count |-> 0])

\* variant: the scan does not step back after combining a pair
CombineOpsIter_NoStepBack(s) ==
    LET first == s.ops[s.firstindex + 1]
        second == s.ops[s.firstindex + 2]
    IN  IF Op_canCombineWith(first, second)
        THEN LET tmpops == Op_combineWith(first, second)
             IN  [ops |-> Insert(Erase(s.ops, s.firstindex, 2), s.firstindex, tmpops),
                  firstindex |-> s.firstindex,
                  count |-> s.count + 1]
        ELSE [s EXCEPT !.firstindex = s.firstindex + 1]

CombineOpsIter(s) ==
    LET first == s.ops[s.firstindex + 1]
        second == s.ops[s.firstindex + 2]
    IN  IF Op_canCombineWith(first, second)
        THEN LET tmpops == Op_combineWith(first, second)
             IN  [ops |-> Insert(Erase(s.ops, s.firstindex, 2), s.firstindex, tmpops),
                  firstindex |-> Max(0, s.firstindex - 1),
                  count |-> s.count + 1]
        ELSE [s EXCEPT !.firstindex = s.firstindex + 1]

RECURSIVE CombineOpsLoop(_)
CombineOpsLoop(s) ==
    IF s.firstindex < SizeMinusOne(s.ops)
    THEN CombineOpsLoop(CombineOpsIter(s))
    ELSE s

CombineOps(opVec) == CombineOpsLoop([ops |-> opVec, firstindex |-> 0, count |-> 0])

(***************************************************************************)
(* OpOptimizers.cpp: the separable prefix.                                 *)
(***************************************************************************)
BitDepths == {"UINT8", "F32", "UINT32"}

\* variant: the run does not stop at a dynamic op
RECURSIVE SeparableRun_IgnoringDynamic(_, _)
SeparableRun_IgnoringDynamic(opVec, prefixLen) ==
    IF prefixLen = Len(opVec) THEN prefixLen
    ELSE IF Op_hasChannelCrosstalk(opVec[prefixLen + 1])
         THEN prefixLen
         ELSE SeparableRun_IgnoringDynamic(opVec, prefixLen + 1)

\* the loop of FindSeparablePrefix: the ops before the first one that has
\* channel crosstalk or is dynamic
RECURSIVE SeparableRun(_, _)
SeparableRun(opVec, prefixLen) ==
    IF prefixLen = Len(opVec) THEN prefixLen
    ELSE IF Op_hasChannelCrosstalk(opVec[prefixLen + 1])
            \/ Op_isDynamic(opVec[prefixLen + 1])
         THEN prefixLen
         ELSE SeparableRun(opVec, prefixLen + 1)

\* variant: a lone 1D LUT is kept whatever its direction
FindSeparablePrefix_AnyLoneLut(opVec) ==
    LET prefixLen == SeparableRun(opVec, 0)
        expensiveOps ==
            Cardinality({i \in 1..prefixLen :
                            opVec[i].type \notin {"Matrix", "Range"}})
    IN  IF prefixLen = 1 /\ opVec[1].type = "Lut1D"
        THEN 0
        ELSE IF expensiveOps = 0 THEN 0 ELSE prefixLen

\* variant: a lone forward 1D LUT is a prefix like any other
FindSeparablePrefix_BakingLoneLut(opVec) ==
    LET prefixLen == SeparableRun(opVec, 0)
        expensiveOps ==
            Cardinality({i \in 1..prefixLen :
                            opVec[i].type \notin {"Matrix", "Range"}})
    IN  IF expensiveOps = 0 THEN 0 ELSE prefixLen

FindSeparablePrefix(opVec) ==
    LET prefixLen == SeparableRun(opVec, 0)
        expensiveOps ==
            Cardinality({i \in 1..prefixLen :
                            opVec[i].type \notin {"Matrix", "Range"}})
    IN  IF prefixLen = 1 /\ opVec[1].type = "Lut1D" /\ opVec[1].style = "fwd"
        THEN 0
        ELSE IF expensiveOps = 0 THEN 0 ELSE prefixLen

\* the Lut1D built by MakeLookupDomain(in) + ComposeVec: a sampled array
\* that is none of the arrays of the input pipelines
ComposedLut(in) ==
    Lut1DOp("fwd", IF in = "UINT8" THEN 8 ELSE 32)

\* variant: only F32 is excluded from baking
OptimizeSeparablePrefix_FloatOnly(opVec, in) ==
    IF opVec = <<>> THEN opVec
    ELSE IF in = "F32" THEN opVec
    ELSE LET prefixLen == FindSeparablePrefix(opVec)
         IN  IF prefixLen = 0 THEN opVec
             ELSE Insert(Erase(opVec, 0, prefixLen), 0, <<ComposedLut(in)>>)

OptimizeSeparablePrefix(opVec, in) ==
    IF opVec = <<>> THEN opVec
    ELSE IF in = "F32" \/ in = "UINT32" THEN opVec
    ELSE LET prefixLen == FindSeparablePrefix(opVec)
         IN  IF prefixLen = 0 THEN opVec
             ELSE Insert(Erase(opVec, 0, prefixLen), 0, <<ComposedLut(in)>>)

(***************************************************************************)
(* The pipelines handed to the optimizer.                                  *)
(***************************************************************************)
FreeOps ==
    {ExponentOp(1), ScaleOp(1),
     CDLOp("v1.2_Fwd", 0), CDLOp("noClampFwd", 0), CDLOp("v1.2_Fwd", 2),
     Lut1DOp("fwd", 0), Lut1DOp("inv", 0),
     RangeOp, ExposureContrastOp(TRUE)}

SeqsUpTo(S, n) == UNION {[1..k -> S] : k \in 0..n}

\* the op that undoes op: its isInverse partner, or for a scale matrix the
\* scale it combines with into the identity
Partner(op) ==
    CASE op.type = "CDL" -> CDLOp(CDL_inverse(cdlData(op)).style, op.p)
      [] op.type = "Matrix" -> ScaleOp(0 - op.p)
      [] op.type = "Exponent" -> ExponentOp(0 - op.p)
      [] OTHER -> [op EXCEPT !.style = OtherDir(op.style)]

\* A, B, ..., B', A'
Nested(w) == w \o [i \in 1..Len(w) |-> Partner(w[Len(w) + 1 - i])]

Openers ==
    {ExponentOp(1), LogOp("fwd"), CDLOp("v1.2_Fwd", 0), CDLOp("noClampRev", 1),
     ScaleOp(1)}

\* CDL, scale, CDL, scale, ... (2d openers)
Alternating(d) ==
    [i \in 1..(2 * d) |-> IF i % 2 = 1 THEN CDLOp("v1.2_Fwd", 1) ELSE ScaleOp(1)]

Inputs ==
    SeqsUpTo(FreeOps, MaxLen)
        \cup {Nested(w) : w \in SeqsUpTo(Openers, MaxNest)}
        \cup {Nested(Alternating(d)) : d \in 1..MaxDepth}

(***************************************************************************)
(* OpData objects: idle while the optimizer runs.                          *)
(***************************************************************************)
NoObject == [style |-> "none"]
NoCall == [op |-> "none"]

DataIdle ==
    /\ cdl = NoObject
    /\ ff = NoObject
    /\ lastOp = NoCall
    /\ raised = FALSE

(***************************************************************************)
(* The GPU processor: idle while the optimizer or the OpData objects are   *)
(* exercised on their own.                                                 *)
(***************************************************************************)
Threads == {"t1", "t2"}
Unlocked == "unlocked"
NoCacheID == [oFlags |-> FALSE, fFlags |-> "none", ops |-> <<>>]
NoValue == [r |-> "none"]
NoParts == [pre |-> <<>>, lattice |-> <<>>, post |-> <<>>]
IdleThread ==
    [pc |-> "idle", call |-> "none", legacy |-> FALSE, ofl |-> FALSE,
     gpuOps |-> <<>>, parts |-> NoParts, gpuLut |-> <<>>, events |-> <<>>,
     coded |-> <<>>, ret |-> NoValue, raised |-> FALSE, prevRaised |-> "none",
     done |-> 0]

GPUIdle ==
    /\ rawOps = <<>>
    /\ m_ops = <<>>
    /\ m_props = <<>>
    /\ propValue = <<>>
    /\ m_cacheID = NoCacheID
    /\ m_hasChannelCrosstalk = FALSE
    /\ m_mutex = Unlocked
    /\ handles = <<>>
    /\ thr = [t \in Threads |-> IdleThread]

\* no Range is being rendered
RangeIdle ==
    /\ range = NoObject
    /\ renderer = NoObject
    /\ rangeRaised = FALSE
    /\ inImg = <<>>
    /\ outImg = <<>>
    /\ shaderCode = <<>>

\* CreateAllocationOps is not being called
AllocIdle ==
    /\ allocData = NoObject
    /\ allocDir = "none"
    /\ allocOps = <<>>
    /\ allocInput = <<>>
    /\ allocPc = "idle"

\* no abstract Op class in play, no Range rendered, no allocation built
IfaceIdle == combineTable = <<>> /\ RangeIdle /\ AllocIdle

(***************************************************************************)
(* The optimizer as a state machine.  A client calls one of the entry      *)
(* points on a pipeline, and may call the same entry point again with the  *)
(* same arguments on the result.                                           *)
(***************************************************************************)
OptimizerIdle ==
    /\ input = <<>>
    /\ fn = "none"
    /\ inBitDepth = "none"
    /\ oFlags = FALSE
    /\ pc = "idle"
    /\ firstindex = 0
    /\ count = 0
    /\ noops = 0
    /\ inverseops = 0
    /\ combines = 0
    /\ passes = 0
    /\ bodyRuns = 0
    /\ afterLoop = <<>>
    /\ loopExit = "none"
    /\ logged = FALSE
    /\ calls = 0
    /\ prevExit = "none"

Init ==
    /\ ops \in Inputs
    /\ OptimizerIdle
    /\ DataIdle
    /\ GPUIdle
    /\ IfaceIdle

\* entry into the call f(ops, bd, fl): the locals are fresh
Enter(f, bd, fl) ==
    /\ pc = "idle"
    /\ calls < MaxCalls
    /\ calls = 0 \/ (fn = f /\ inBitDepth = bd /\ oFlags = fl)
    /\ fn' = f
    /\ inBitDepth' = bd
    /\ oFlags' = fl
    /\ input' = ops
    /\ calls' = calls + 1
    /\ prevExit' = loopExit
    /\ loopExit' = "none"
    /\ logged' = FALSE
    /\ afterLoop' = <<>>
    /\ noops' = 0
    /\ inverseops' = 0
    /\ combines' = 0
    /\ passes' = 0
    /\ bodyRuns' = 0

Locals == <<noops, inverseops, combines, passes, bodyRuns, afterLoop,
            loopExit, logged>>
Args == <<input, fn, inBitDepth, oFlags, calls, prevExit>>

Call_RemoveNoOps ==
    /\ Enter("RemoveNoOps", "none", FALSE)
    /\ LET r == RemoveNoOps(ops)
       IN  /\ ops' = r.ops
           /\ count' = r.count
    /\ firstindex' = 0
    /\ pc' = "idle"
    /\ UNCHANGED <<dataVars, gpuVars, ifaceVars>>

Call_RemoveInverseOps ==
    /\ Enter("RemoveInverseOps", "none", FALSE)
    /\ firstindex' = 0
    /\ count' = 0
    /\ pc' = "RemoveInverseOps"
    /\ UNCHANGED <<ops, dataVars, gpuVars, ifaceVars>>

RemoveInverseOps_Body ==
    /\ pc = "RemoveInverseOps"
    /\ firstindex < SizeMinusOne(ops)
    /\ LET s == RemoveInverseOpsIter(
                    [ops |-> ops, firstindex |-> firstindex, count |-> count])
       IN  /\ ops' = s.ops
           /\ firstindex' = s.firstindex
           /\ count' = s.count
    /\ UNCHANGED <<pc, Locals, Args, dataVars, gpuVars, ifaceVars>>

RemoveInverseOps_Return ==
    /\ pc = "RemoveInverseOps"
    /\ ~(firstindex < SizeMinusOne(ops))
    /\ pc' = "idle"
    /\ UNCHANGED <<ops, firstindex, count, Locals, Args, dataVars, gpuVars, ifaceVars>>

Call_CombineOps ==
    /\ Enter("CombineOps", "none", FALSE)
    /\ firstindex' = 0
    /\ count' = 0
    /\ pc' = "CombineOps"
    /\ UNCHANGED <<ops, dataVars, gpuVars, ifaceVars>>

CombineOps_Body ==
    /\ pc = "CombineOps"
    /\ firstindex < SizeMinusOne(ops)
    /\ LET s == CombineOpsIter(
                    [ops |-> ops, firstindex |-> firstindex, count |-> count])
       IN  /\ ops' = s.ops
           /\ firstindex' = s.firstindex
           /\ count' = s.count
    /\ UNCHANGED <<pc, Locals, Args, dataVars, gpuVars, ifaceVars>>

CombineOps_Return ==
    /\ pc = "CombineOps"
    /\ ~(firstindex < SizeMinusOne(ops))
    /\ pc' = "idle"
    /\ UNCHANGED <<ops, firstindex, count, Locals, Args, dataVars, gpuVars, ifaceVars>>

Call_OptimizeSeparablePrefix ==
    /\ \E bd \in BitDepths : Enter("OptimizeSeparablePrefix", bd, TRUE)
    /\ ops' = OptimizeSeparablePrefix(ops, inBitDepth')
    /\ firstindex' = 0
    /\ count' = 0
    /\ pc' = "idle"
    /\ UNCHANGED <<dataVars, gpuVars, ifaceVars>>

\* OptimizeOpVec up to the pass loop; an empty vector returns at once
Call_OptimizeOpVec ==
    /\ \E bd \in BitDepths, fl \in BOOLEAN : Enter("OptimizeOpVec", bd, fl)
    /\ pc' = IF ops = <<>> THEN "idle" ELSE "loop"
    /\ firstindex' = 0
    /\ count' = 0
    /\ UNCHANGED <<ops, dataVars, gpuVars, ifaceVars>>

\* one execution of the body of while (passes <= MAX_OPTIMIZATION_PASSES),
\* up to the test of the three counts
OptimizeOpVec_Pass ==
    /\ pc = "loop"
    /\ passes <= MAX_OPTIMIZATION_PASSES
    /\ LET r1 == RemoveNoOps(ops)
           r2 == RemoveInverseOps(r1.ops)
           r3 == CombineOps(r2.ops)
       IN  /\ noops' = r1.count
           /\ inverseops' = r2.count
           /\ combines' = r3.count
           /\ ops' = r3.ops
    /\ bodyRuns' = bodyRuns + 1
    /\ pc' = "passEnd"
    /\ UNCHANGED <<firstindex, count, passes, afterLoop, loopExit, logged,
                   Args, dataVars, gpuVars, ifaceVars>>

\* variant: the break test forgets the combines counter
OptimizeOpVec_Break_IgnoringCombines ==
    /\ pc = "passEnd"
    /\ noops = 0 /\ inverseops = 0
    /\ loopExit' = "break"
    /\ pc' = "prefix"
    /\ UNCHANGED <<ops, firstindex, count, noops, inverseops, combines, passes,
                   bodyRuns, afterLoop, logged, Args, dataVars, gpuVars, ifaceVars>>

\* no progress: break
OptimizeOpVec_Break ==
    /\ pc = "passEnd"
    /\ noops = 0 /\ inverseops = 0 /\ combines = 0
    /\ loopExit' = "break"
    /\ pc' = "prefix"
    /\ UNCHANGED <<ops, firstindex, count, noops, inverseops, combines, passes,
                   bodyRuns, afterLoop, logged, Args, dataVars, gpuVars, ifaceVars>>

\* progress: ++passes and back to the loop test
OptimizeOpVec_Continue ==
    /\ pc = "passEnd"
    /\ ~(noops = 0 /\ inverseops = 0 /\ combines = 0)
    /\ passes' = passes + 1
    /\ pc' = "loop"
    /\ UNCHANGED <<ops, firstindex, count, noops, inverseops, combines,
                   bodyRuns, afterLoop, loopExit, logged, Args, dataVars, gpuVars, ifaceVars>>

\* the loop condition fails
OptimizeOpVec_Budget ==
    /\ pc = "loop"
    /\ ~(passes <= MAX_OPTIMIZATION_PASSES)
    /\ loopExit' = "budget"
    /\ pc' = "prefix"
    /\ UNCHANGED <<ops, firstindex, count, noops, inverseops, combines, passes,
                   bodyRuns, afterLoop, logged, Args, dataVars, gpuVars, ifaceVars>>

\* the separable prefix stage
OptimizeOpVec_Prefix ==
    /\ pc = "prefix"
    /\ afterLoop' = ops
    /\ ops' = IF ops # <<>> /\ oFlags
              THEN OptimizeSeparablePrefix(ops, inBitDepth)
              ELSE ops
    /\ pc' = "log"
    /\ UNCHANGED <<firstindex, count, noops, inverseops, combines, passes,
                   bodyRuns, loopExit, logged, Args, dataVars, gpuVars, ifaceVars>>

\* the max-passes diagnostic, and return
OptimizeOpVec_Log ==
    /\ pc = "log"
    /\ logged' = (passes = MAX_OPTIMIZATION_PASSES)
    /\ pc' = "idle"
    /\ UNCHANGED <<ops, firstindex, count, noops, inverseops, combines, passes,
                   bodyRuns, afterLoop, loopExit, Args, dataVars, gpuVars, ifaceVars>>

Next ==
    \/ Call_RemoveNoOps
    \/ Call_RemoveInverseOps
    \/ RemoveInverseOps_Body
    \/ RemoveInverseOps_Return
    \/ Call_CombineOps
    \/ CombineOps_Body
    \/ CombineOps_Return
    \/ Call_OptimizeSeparablePrefix
    \/ Call_OptimizeOpVec
    \/ OptimizeOpVec_Pass
    \/ OptimizeOpVec_Break
    \/ OptimizeOpVec_Continue
    \/ OptimizeOpVec_Budget
    \/ OptimizeOpVec_Prefix
    \/ OptimizeOpVec_Log

Spec == Init /\ [][Next]_vars

(***************************************************************************)
(* CDLOpData.cpp / FixedFunctionOpData.cpp: construction, setters and      *)
(* validate().  A client holds one OpData object and calls its             *)
(* constructors, setters and validate() in any order.  Doubles are         *)
(* integers; FixedFunction parameters are counted in thousandths.          *)
(***************************************************************************)
\* A double is an integer, or NaN: a code no arithmetic of the model
\* produces.  Every ordered comparison with a NaN operand is false.
NaN == -1000

DoubleGE(a, b) == a # NaN /\ b # NaN /\ a >= b
DoubleGT(a, b) == a # NaN /\ b # NaN /\ a > b
DoubleLT(a, b) == a # NaN /\ b # NaN /\ a < b

\* variant: the comparison is strict
validateGreaterEqual_Strict(value, threshold) == ~DoubleGT(value, threshold)

validateGreaterEqual(value, threshold) == ~DoubleGE(value, threshold)   \* TRUE: throws

validateGreaterThan(value, threshold) == ~DoubleGT(value, threshold)     \* TRUE: throws

\* variant: the power is checked with validateGreaterEqual
validateParams_PowerGreaterEqual(slopeParams, powerParams, saturation) ==
    \/ \E i \in 1..3 : validateGreaterEqual(slopeParams[i], 0)
    \/ \E i \in 1..3 : validateGreaterEqual(powerParams[i], 0)
    \/ validateGreaterEqual(saturation, 0)

\* TRUE iff validateParams throws
validateParams(slopeParams, powerParams, saturation) ==
    \/ \E i \in 1..3 : validateGreaterEqual(slopeParams[i], 0)
    \/ \E i \in 1..3 : validateGreaterThan(powerParams[i], 0)
    \/ validateGreaterEqual(saturation, 0)

\* TRUE iff CDLOpData::validate() throws
CDL_validate(d) == validateParams(d.slope, d.power, d.sat)

FixedFunctionStyles ==
    {"ACES_RED_MOD_03_FWD", "ACES_RED_MOD_03_INV", "ACES_RED_MOD_10_FWD",
     "ACES_RED_MOD_10_INV", "ACES_GLOW_03_FWD", "ACES_GLOW_03_INV",
     "ACES_GLOW_10_FWD", "ACES_GLOW_10_INV", "ACES_DARK_TO_DIM_10_FWD",
     "ACES_DARK_TO_DIM_10_INV", "REC2100_SURROUND"}

low_bound == 1          \* 0.001
hi_bound == 100000      \* 100.

FixedFunctionOpData(params, style) == [style |-> style, params |-> params]

\* "ok", or the exception FixedFunctionOpData::validate() throws
FF_validate(d) ==
    IF d.style = "REC2100_SURROUND"
    THEN IF Len(d.params) # 1 THEN "must have one parameter"
         ELSE IF DoubleLT(d.params[1], low_bound) THEN "less than lower bound"
         ELSE IF DoubleGT(d.params[1], hi_bound) THEN "greater than upper bound"
         ELSE "ok"
    ELSE IF Len(d.params) # 0 THEN "must have zero parameters"
         ELSE "ok"

\* 1. / p, for p counted in thousandths
Reciprocal(p) == IF p = NaN THEN NaN ELSE 1000000 \div p

\* variant: Rec2100Surround keeps its parameter
FF_invert_KeepingParams(d) ==
    CASE d.style = "ACES_RED_MOD_03_FWD" -> [d EXCEPT !.style = "ACES_RED_MOD_03_INV"]
      [] d.style = "ACES_RED_MOD_03_INV" -> [d EXCEPT !.style = "ACES_RED_MOD_03_FWD"]
      [] d.style = "ACES_RED_MOD_10_FWD" -> [d EXCEPT !.style = "ACES_RED_MOD_10_INV"]
      [] d.style = "ACES_RED_MOD_10_INV" -> [d EXCEPT !.style = "ACES_RED_MOD_10_FWD"]
      [] d.style = "ACES_GLOW_03_FWD" -> [d EXCEPT !.style = "ACES_GLOW_03_INV"]
      [] d.style = "ACES_GLOW_03_INV" -> [d EXCEPT !.style = "ACES_GLOW_03_FWD"]
      [] d.style = "ACES_GLOW_10_FWD" -> [d EXCEPT !.style = "ACES_GLOW_10_INV"]
      [] d.style = "ACES_GLOW_10_INV" -> [d EXCEPT !.style = "ACES_GLOW_10_FWD"]
      [] d.style = "ACES_DARK_TO_DIM_10_FWD" ->
            [d EXCEPT !.style = "ACES_DARK_TO_DIM_10_INV"]
      [] d.style = "ACES_DARK_TO_DIM_10_INV" ->
            [d EXCEPT !.style = "ACES_DARK_TO_DIM_10_FWD"]
      [] d.style = "REC2100_SURROUND" -> d

\* FixedFunctionOpData::invert(), on an object that holds what validate()
\* accepts
FF_invert(d) ==
    CASE d.style = "ACES_RED_MOD_03_FWD" -> [d EXCEPT !.style = "ACES_RED_MOD_03_INV"]
      [] d.style = "ACES_RED_MOD_03_INV" -> [d EXCEPT !.style = "ACES_RED_MOD_03_FWD"]
      [] d.style = "ACES_RED_MOD_10_FWD" -> [d EXCEPT !.style = "ACES_RED_MOD_10_INV"]
      [] d.style = "ACES_RED_MOD_10_INV" -> [d EXCEPT !.style = "ACES_RED_MOD_10_FWD"]
      [] d.style = "ACES_GLOW_03_FWD" -> [d EXCEPT !.style = "ACES_GLOW_03_INV"]
      [] d.style = "ACES_GLOW_03_INV" -> [d EXCEPT !.style = "ACES_GLOW_03_FWD"]
      [] d.style = "ACES_GLOW_10_FWD" -> [d EXCEPT !.style = "ACES_GLOW_10_INV"]
      [] d.style = "ACES_GLOW_10_INV" -> [d EXCEPT !.style = "ACES_GLOW_10_FWD"]
      [] d.style = "ACES_DARK_TO_DIM_10_FWD" ->
            [d EXCEPT !.style = "ACES_DARK_TO_DIM_10_INV"]
      [] d.style = "ACES_DARK_TO_DIM_10_INV" ->
            [d EXCEPT !.style = "ACES_DARK_TO_DIM_10_FWD"]
      [] d.style = "REC2100_SURROUND" ->
            [d EXCEPT !.params = <<Reciprocal(d.params[1])>>]

\* the arguments the client passes
DoubleArgs == {-1, 0, 1, 2, NaN}
ChannelArgs ==
    {ChannelParams(v) : v \in {-1, 0, 1}}
        \cup {<<1, 1, -1>>, <<1, 0, 1>>, <<1, NaN, 1>>}
OffsetArgs == {kZeroParams, ChannelParams(-1)}
FFParamArgs ==
    {<<>>, <<0>>, <<1>>, <<2000>>, <<100000>>, <<120000>>, <<NaN>>,
     <<2000, 120000>>}

InitData ==
    /\ ops = <<>>
    /\ OptimizerIdle
    /\ DataIdle
    /\ GPUIdle
    /\ IfaceIdle

\* CDLOpData::CDLOpData(): no validate() call
CDL_New ==
    /\ cdl = NoObject /\ ff = NoObject
    /\ cdl' = CDLOpData("v1.2_Fwd", ChannelParams(1), ChannelParams(0),
                        ChannelParams(1), 1)
    /\ lastOp' = [op |-> "CDLOpData()"]
    /\ raised' = FALSE
    /\ UNCHANGED <<ff, optVars, gpuVars, ifaceVars>>

\* CDLOpData::CDLOpData(style, slope, offset, power, saturation): validate()
CDL_NewWith ==
    /\ cdl = NoObject /\ ff = NoObject
    /\ \E st \in CDLStyles, sl \in ChannelArgs, of \in OffsetArgs,
          pw \in ChannelArgs, sa \in DoubleArgs :
            LET d == CDLOpData(st, sl, of, pw, sa)
            IN  /\ raised' = CDL_validate(d)
                /\ cdl' = IF CDL_validate(d) THEN NoObject ELSE d
                /\ lastOp' = [op |-> "CDLOpData(...)", arg |-> d]
    /\ UNCHANGED <<ff, optVars, gpuVars, ifaceVars>>

CDL_setStyle ==
    /\ cdl # NoObject
    /\ \E st \in CDLStyles :
            /\ cdl' = [cdl EXCEPT !.style = st]
            /\ lastOp' = [op |-> "CDL::setStyle", arg |-> st]
    /\ raised' = FALSE
    /\ UNCHANGED <<ff, optVars, gpuVars, ifaceVars>>

CDL_setSlopeParams ==
    /\ cdl # NoObject
    /\ \E v \in ChannelArgs :
            /\ cdl' = [cdl EXCEPT !.slope = v]
            /\ lastOp' = [op |-> "CDL::setSlopeParams", arg |-> v]
    /\ raised' = FALSE
    /\ UNCHANGED <<ff, optVars, gpuVars, ifaceVars>>

CDL_setOffsetParams ==
    /\ cdl # NoObject
    /\ \E v \in OffsetArgs :
            /\ cdl' = [cdl EXCEPT !.offset = v]
            /\ lastOp' = [op |-> "CDL::setOffsetParams", arg |-> v]
    /\ raised' = FALSE
    /\ UNCHANGED <<ff, optVars, gpuVars, ifaceVars>>

CDL_setPowerParams ==
    /\ cdl # NoObject
    /\ \E v \in ChannelArgs :
            /\ cdl' = [cdl EXCEPT !.power = v]
            /\ lastOp' = [op |-> "CDL::setPowerParams", arg |-> v]
    /\ raised' = FALSE
    /\ UNCHANGED <<ff, optVars, gpuVars, ifaceVars>>

CDL_setSaturation ==
    /\ cdl # NoObject
    /\ \E v \in DoubleArgs :
            /\ cdl' = [cdl EXCEPT !.sat = v]
            /\ lastOp' = [op |-> "CDL::setSaturation", arg |-> v]
    /\ raised' = FALSE
    /\ UNCHANGED <<ff, optVars, gpuVars, ifaceVars>>

CDL_callValidate ==
    /\ cdl # NoObject
    /\ raised' = CDL_validate(cdl)
    /\ lastOp' = [op |-> "CDL::validate"]
    /\ UNCHANGED <<cdl, ff, optVars, gpuVars, ifaceVars>>

\* FixedFunctionOpData::FixedFunctionOpData(): no validate() call
FF_New ==
    /\ cdl = NoObject /\ ff = NoObject
    /\ ff' = FixedFunctionOpData(<<>>, "ACES_RED_MOD_03_FWD")
    /\ lastOp' = [op |-> "FixedFunctionOpData()"]
    /\ raised' = FALSE
    /\ UNCHANGED <<cdl, optVars, gpuVars, ifaceVars>>

\* FixedFunctionOpData::FixedFunctionOpData(params, style): validate()
FF_NewWith ==
    /\ cdl = NoObject /\ ff = NoObject
    /\ \E ps \in FFParamArgs, st \in FixedFunctionStyles :
            LET d == FixedFunctionOpData(ps, st)
            IN  /\ raised' = (FF_validate(d) # "ok")
                /\ ff' = IF FF_validate(d) # "ok" THEN NoObject ELSE d
                /\ lastOp' = [op |-> "FixedFunctionOpData(...)", arg |-> d]
    /\ UNCHANGED <<cdl, optVars, gpuVars, ifaceVars>>

FF_setParams ==
    /\ ff # NoObject
    /\ \E ps \in FFParamArgs :
            /\ ff' = [ff EXCEPT !.params = ps]
            /\ lastOp' = [op |-> "FixedFunction::setParams", arg |-> ps]
    /\ raised' = FALSE
    /\ UNCHANGED <<cdl, optVars, gpuVars, ifaceVars>>

FF_setStyle ==
    /\ ff # NoObject
    /\ \E st \in FixedFunctionStyles :
            /\ ff' = [ff EXCEPT !.style = st]
            /\ lastOp' = [op |-> "FixedFunction::setStyle", arg |-> st]
    /\ raised' = FALSE
    /\ UNCHANGED <<cdl, optVars, gpuVars, ifaceVars>>

FF_callValidate ==
    /\ ff # NoObject
    /\ raised' = (FF_validate(ff) # "ok")
    /\ lastOp' = [op |-> "FixedFunction::validate", what |-> FF_validate(ff)]
    /\ UNCHANGED <<cdl, ff, optVars, gpuVars, ifaceVars>>

CDL_callIsNoOp ==
    /\ cdl # NoObject
    /\ lastOp' = [op |-> "CDL::isNoOp", result |-> CDL_isNoOp(cdl)]
    /\ raised' = FALSE
    /\ UNCHANGED <<cdl, ff, optVars, gpuVars, ifaceVars>>

CDL_callIsIdentity ==
    /\ cdl # NoObject
    /\ lastOp' = [op |-> "CDL::isIdentity", result |-> CDL_isIdentity(cdl)]
    /\ raised' = FALSE
    /\ UNCHANGED <<cdl, ff, optVars, gpuVars, ifaceVars>>

\* clone() copies the members; the style of the copy is flipped
CDL_callInverse ==
    /\ cdl # NoObject
    /\ lastOp' = [op |-> "CDL::inverse", result |-> CDL_inverse(cdl)]
    /\ raised' = FALSE
    /\ UNCHANGED <<cdl, ff, optVars, gpuVars, ifaceVars>>

\* clone() constructs the copy with the validating constructor and throws
\* what validate() throws; invert() then acts on the copy
FF_callInverse ==
    /\ ff # NoObject
    /\ raised' = (FF_validate(ff) # "ok")
    /\ lastOp' = [op |-> "FixedFunction::inverse",
                  result |-> IF FF_validate(ff) # "ok" THEN NoObject
                             ELSE FF_invert(ff)]
    /\ UNCHANGED <<cdl, ff, optVars, gpuVars, ifaceVars>>

NextData ==
    \/ CDL_New
    \/ CDL_NewWith
    \/ CDL_setStyle
    \/ CDL_setSlopeParams
    \/ CDL_setOffsetParams
    \/ CDL_setPowerParams
    \/ CDL_setSaturation
    \/ CDL_callValidate
    \/ FF_New
    \/ FF_NewWith
    \/ FF_setParams
    \/ FF_setStyle
    \/ FF_callValidate
    \/ CDL_callIsNoOp
    \/ CDL_callIsIdentity
    \/ CDL_callInverse
    \/ FF_callInverse

SpecData == InitData /\ [][NextData]_vars

(***************************************************************************)
(* GPUProcessor.cpp.  The ops of a GPU processor: exposure/contrast ops    *)
(* carry an identity (their position in the list handed to finalize), the  *)
(* set of their parameters that were made dynamic and their own parameter  *)
(* values; 3D LUT ops sample a lattice.                                    *)
(***************************************************************************)
PropertyKinds == {"EXPOSURE", "GAMMA"}

ECOp(exposure, dynamic) ==
    [type |-> "ExposureContrast", style |-> "fwd", p |-> exposure,
     dyn |-> dynamic # {}, dynamic |-> dynamic, gamma |-> 1, id |-> 0]

\* a 3D LUT sampling the ops of lattice
Lut3DOp(dir, lattice) ==
    [type |-> "Lut3D", style |-> dir, p |-> 0, dyn |-> FALSE, baked |-> lattice]

\* variant: an exposure/contrast op answers for a kind whether or not the
\* parameter was made dynamic
Op_hasDynamicProperty_AnyParameter(op, kind) ==
    op.type = "ExposureContrast"

\* op->hasDynamicProperty(type)
Op_hasDynamicProperty(op, kind) ==
    op.type = "ExposureContrast" /\ kind \in op.dynamic

\* the op's own value of the parameter
Op_ownValue(op, kind) == IF kind = "EXPOSURE" THEN op.p ELSE op.gamma

\* the ops the legacy shader language cannot inline
Op_supportedByLegacyShader(op) == op.type # "Lut3D"

\* the ops that have a shader generator
Op_hasShaderGenerator(op) == ~(op.type = "Lut3D" /\ op.style = "inv")

RECURSIVE OptimizeOpVecLoop(_, _)
OptimizeOpVecLoop(opVec, n) ==
    IF n <= MAX_OPTIMIZATION_PASSES
    THEN LET a == RemoveNoOps(opVec)
             b == RemoveInverseOps(a.ops)
             c == CombineOps(b.ops)
         IN IF a.count + b.count + c.count = 0 THEN c.ops
            ELSE OptimizeOpVecLoop(c.ops, n + 1)
    ELSE opVec

\* OptimizeOpVec(ops, in, oFlags) as a function of its arguments
OptimizeOpVecOf(opVec, in, fl) ==
    IF opVec = <<>> THEN opVec
    ELSE LET after == OptimizeOpVecLoop(opVec, 0)
         IN IF after # <<>> /\ fl THEN OptimizeSeparablePrefix(after, in)
            ELSE after

\* FinalizeOpVec(ops, fFlags): each op is finalized in place
FinalizeOpVec(opVec) == opVec

FirstExposing(opVec, kind) ==
    LET idx == {j \in 1..Len(opVec) : Op_hasDynamicProperty(opVec[j], kind)}
    IN IF idx = {} THEN 0 ELSE CHOOSE j \in idx : \A k \in idx : j <= k

\* the property objects of a list: op id and kind
Exposed(opVec) ==
    UNION {{<<opVec[j].id, kind>> :
                kind \in {k \in PropertyKinds : Op_hasDynamicProperty(opVec[j], k)}} :
           j \in 1..Len(opVec)}

\* variant: every op keeps its own property object
UnifyDynamicProperties_Separate(opVec) ==
    [k \in Exposed(opVec) |-> k[1]]

\* UnifyDynamicProperties(ops): every op exposing a kind shares the property
\* object of the first op of the list that exposes it
UnifyDynamicProperties(opVec) ==
    [k \in Exposed(opVec) |-> opVec[FirstExposing(opVec, k[2])].id]

\* PartitionGPUOps: the ops before the first op the legacy shader language
\* cannot inline, the ops from that one to the last such op, and the rest
PartitionGPUOps(gpuOps) ==
    LET bad == {j \in 1..Len(gpuOps) : ~Op_supportedByLegacyShader(gpuOps[j])}
        lo == CHOOSE j \in bad : \A k \in bad : j <= k
        hi == CHOOSE j \in bad : \A k \in bad : j >= k
    IN IF bad = {}
       THEN [pre |-> gpuOps, lattice |-> <<>>, post |-> <<>>]
       ELSE [pre |-> SubSeq(gpuOps, 1, lo - 1),
             lattice |-> SubSeq(gpuOps, lo, hi),
             post |-> SubSeq(gpuOps, hi + 1, Len(gpuOps))]

\* variant: a lattice op is made even for no ops
Create3DLut_Always(lattice) == <<Lut3DOp("fwd", lattice)>>

\* Create3DLut(ops, edgelen): one 3D LUT op sampling the ops, none for no ops
Create3DLut(lattice) ==
    IF Len(lattice) = 0 THEN <<>> ELSE <<Lut3DOp("fwd", lattice)>>

\* the cache id finalize builds from its flags and the ops' cache ids
CacheIDOf(ofl, ffl, opVec) == [oFlags |-> ofl, fFlags |-> ffl, ops |-> opVec]

\* the crosstalk loop of finalize
HasChannelCrosstalkOf(opVec) ==
    \E j \in 1..Len(opVec) : Op_hasChannelCrosstalk(opVec[j])

(***************************************************************************)
(* The GPU processor as a state machine.  Threads call finalize,           *)
(* extractGpuShaderInfo and the accessors on one processor; a client sets  *)
(* the value of the property handles it obtained and renders.              *)
(***************************************************************************)
MaxGpuLen == 2
MaxThreadCalls == 2

GpuOpArgs ==
    {ECOp(1, {"EXPOSURE"}), ECOp(2, {"EXPOSURE"}), ECOp(1, {}),
     ECOp(1, {"GAMMA"}), ScaleOp(1), Lut3DOp("fwd", <<>>),
     Lut3DOp("inv", <<>>)}

\* the exposure/contrast ops of a list are distinct objects
WithIds(opVec) ==
    [i \in 1..Len(opVec) |->
        IF opVec[i].type = "ExposureContrast"
        THEN [opVec[i] EXCEPT !.id = i] ELSE opVec[i]]

GpuInputs ==
    {WithIds(w) : w \in SeqsUpTo(GpuOpArgs, MaxGpuLen)}
    \cup {WithIds(<<ScaleOp(1), Lut3DOp("fwd", <<>>), ECOp(1, {}),
                    Lut3DOp("fwd", <<>>), ScaleOp(1)>>),
          WithIds(<<ECOp(1, {}), ECOp(2, {"EXPOSURE"}), ECOp(1, {"EXPOSURE"})>>),
          WithIds(<<ScaleOp(1), ScaleOp(-1), ECOp(1, {"EXPOSURE"})>>)}

InitGPU ==
    /\ ops = <<>>
    /\ OptimizerIdle
    /\ DataIdle
    /\ rawOps \in GpuInputs
    /\ m_ops = <<>>
    /\ m_props = <<>>
    /\ propValue = [k \in Exposed(rawOps) |-> Op_ownValue(rawOps[k[1]], k[2])]
    /\ m_cacheID = NoCacheID
    /\ m_hasChannelCrosstalk \in BOOLEAN
    /\ m_mutex = Unlocked
    /\ handles = <<>>
    /\ thr = [t \in Threads |-> IdleThread]
    /\ IfaceIdle

\* a thread may start a call
CanCall(t) == thr[t].pc = "idle" /\ thr[t].done < MaxThreadCalls

\* the thread record at the start of a call
Begin(t, call) ==
    [IdleThread EXCEPT !.call = call, !.done = thr[t].done,
                       !.prevRaised = IF thr[t].raised THEN thr[t].call
                                      ELSE thr[t].prevRaised]

\* the thread record when a call returns
End(r) == [r EXCEPT !.pc = "idle", !.done = @ + 1]

\* variant: the lock is not released
AutoMutex_Release_Leaking(holder) == holder

\* ~AutoMutex(): the lock is released, on return or on unwinding
AutoMutex_Release(holder) == Unlocked

\* variant: the lock stays held when an exception leaves the scope
AutoMutex_Unwind_Leaking(holder) == holder

\* ~AutoMutex() when an exception leaves the scope
AutoMutex_Unwind(holder) == Unlocked

\* the property object an op references for a kind
OwnerOf(op, kind) ==
    IF <<op.id, kind>> \in DOMAIN m_props THEN m_props[<<op.id, kind>>] ELSE op.id

\* finalize: AutoMutex lock(m_mutex)
Finalize_Lock(t) ==
    /\ CanCall(t)
    /\ m_mutex = Unlocked
    /\ \E fl \in BOOLEAN :
        thr' = [thr EXCEPT ![t] = [Begin(t, "finalize") EXCEPT
                                      !.pc = "f_assign", !.ofl = fl]]
    /\ m_mutex' = t
    /\ UNCHANGED <<rawOps, m_ops, m_props, propValue, m_cacheID,
                   m_hasChannelCrosstalk, handles, optVars, dataVars, ifaceVars>>

\* m_ops = rawOps
Finalize_Assign(t) ==
    /\ thr[t].pc = "f_assign"
    /\ m_ops' = rawOps
    /\ thr' = [thr EXCEPT ![t].pc = "f_optimize"]
    /\ UNCHANGED <<rawOps, m_props, propValue, m_cacheID,
                   m_hasChannelCrosstalk, m_mutex, handles, optVars, dataVars, ifaceVars>>

\* OptimizeOpVec, FinalizeOpVec, UnifyDynamicProperties
Finalize_Optimize(t) ==
    /\ thr[t].pc = "f_optimize"
    /\ m_ops' = FinalizeOpVec(OptimizeOpVecOf(m_ops, "F32", thr[t].ofl))
    /\ m_props' = UnifyDynamicProperties(m_ops')
    /\ thr' = [thr EXCEPT ![t].pc = "f_clear"]
    /\ UNCHANGED <<rawOps, propValue, m_cacheID,
                   m_hasChannelCrosstalk, m_mutex, handles, optVars, dataVars, ifaceVars>>

\* m_hasChannelCrosstalk = false
Finalize_ClearCrosstalk(t) ==
    /\ thr[t].pc = "f_clear"
    /\ m_hasChannelCrosstalk' = FALSE
    /\ thr' = [thr EXCEPT ![t].pc = "f_crosstalk"]
    /\ UNCHANGED <<rawOps, m_ops, m_props, propValue, m_cacheID,
                   m_mutex, handles, optVars, dataVars, ifaceVars>>

\* the loop over m_ops that sets m_hasChannelCrosstalk
Finalize_Crosstalk(t) ==
    /\ thr[t].pc = "f_crosstalk"
    /\ m_hasChannelCrosstalk' = HasChannelCrosstalkOf(m_ops)
    /\ thr' = [thr EXCEPT ![t].pc = "f_cacheid"]
    /\ UNCHANGED <<rawOps, m_ops, m_props, propValue, m_cacheID,
                   m_mutex, handles, optVars, dataVars, ifaceVars>>

\* m_cacheID = ss.str(), and the return
Finalize_CacheID(t) ==
    /\ thr[t].pc = "f_cacheid"
    /\ m_cacheID' = CacheIDOf(thr[t].ofl, "default", m_ops)
    /\ m_mutex' = AutoMutex_Release(t)
    /\ thr' = [thr EXCEPT ![t] = End(thr[t])]
    /\ UNCHANGED <<rawOps, m_ops, m_props, propValue,
                   m_hasChannelCrosstalk, handles, optVars, dataVars, ifaceVars>>

\* a thread is inside finalize, between taking the lock and its return
InFinalize(u) == thr[u].call = "finalize" /\ thr[u].pc # "idle"

\* a thread is about to write m_ops
WritingOps(u) == thr[u].pc \in {"f_assign", "f_optimize"}

PropertyValues == {2, 3}

\* getDynamicProperty(type): no lock is taken; the first op of m_ops that
\* has the property, or the exception
GetDynamicProperty(t) ==
    /\ CanCall(t)
    /\ \E kind \in PropertyKinds :
        LET found == FirstExposing(m_ops, kind)
            h == <<OwnerOf(m_ops[found], kind), kind>>
            me == Begin(t, "getDynamicProperty")
        IN IF found = 0
           THEN /\ thr' = [thr EXCEPT ![t] = End([me EXCEPT
                            !.raised = TRUE,
                            !.ret = [r |-> "exception", kind |-> kind,
                                     seen |-> m_ops]])]
                /\ UNCHANGED handles
           ELSE /\ thr' = [thr EXCEPT ![t] = End([me EXCEPT
                            !.ret = [r |-> "property", kind |-> kind,
                                     index |-> found, handle |-> h,
                                     seen |-> m_ops]])]
                /\ handles' = IF h \in DOMAIN handles THEN handles
                              ELSE [k \in DOMAIN handles \cup {h} |->
                                       IF k = h THEN 0 ELSE handles[k]]
    /\ UNCHANGED <<rawOps, m_ops, m_props, propValue, m_cacheID,
                   m_hasChannelCrosstalk, m_mutex, optVars, dataVars, ifaceVars>>

\* getDynamicProperty(type) while another thread writes m_ops: the read of
\* the vector races with the write
GetDynamicProperty_Race(t) ==
    /\ CanCall(t)
    /\ \E u \in Threads \ {t} : WritingOps(u)
    /\ \E kind \in PropertyKinds :
        thr' = [thr EXCEPT ![t] = End([Begin(t, "getDynamicProperty") EXCEPT
                    !.ret = [r |-> "undefined", kind |-> kind, seen |-> m_ops]])]
    /\ UNCHANGED <<rawOps, m_ops, m_props, propValue, m_cacheID,
                   m_hasChannelCrosstalk, m_mutex, handles, optVars, dataVars, ifaceVars>>

\* getCacheID(): no lock is taken
GetCacheID(t) ==
    /\ CanCall(t)
    /\ thr' = [thr EXCEPT ![t] = End([Begin(t, "getCacheID") EXCEPT
                    !.ret = [r |-> "cacheID", value |-> m_cacheID,
                             seen |-> m_ops]])]
    /\ UNCHANGED <<rawOps, m_ops, m_props, propValue, m_cacheID,
                   m_hasChannelCrosstalk, m_mutex, handles, optVars, dataVars, ifaceVars>>

\* hasChannelCrosstalk(): no lock is taken
HasChannelCrosstalk(t) ==
    /\ CanCall(t)
    /\ thr' = [thr EXCEPT ![t] = End([Begin(t, "hasChannelCrosstalk") EXCEPT
                    !.ret = [r |-> "crosstalk", value |-> m_hasChannelCrosstalk,
                             seen |-> m_ops]])]
    /\ UNCHANGED <<rawOps, m_ops, m_props, propValue, m_cacheID,
                   m_hasChannelCrosstalk, m_mutex, handles, optVars, dataVars, ifaceVars>>

\* DynamicProperty::setValue on a handle the client holds
SetValue(t) ==
    /\ CanCall(t)
    /\ \E h \in DOMAIN handles, v \in PropertyValues :
        /\ propValue' = [propValue EXCEPT ![h] = v]
        /\ handles' = [handles EXCEPT ![h] = v]
        /\ thr' = [thr EXCEPT ![t] = End([Begin(t, "setValue") EXCEPT
                        !.ret = [r |-> "set", handle |-> h, value |-> v]])]
    /\ UNCHANGED <<rawOps, m_ops, m_props, m_cacheID,
                   m_hasChannelCrosstalk, m_mutex, optVars, dataVars, ifaceVars>>

\* the value an op uses for a parameter when it renders
Op_valueUsed(op, kind) ==
    IF Op_hasDynamicProperty(op, kind)
    THEN propValue[<<OwnerOf(op, kind), kind>>]
    ELSE Op_ownValue(op, kind)

\* finalize has returned and no thread is inside it
Finalized == m_cacheID # NoCacheID /\ \A u \in Threads : ~InFinalize(u)

\* rendering with the processor's ops: the parameter values each
\* exposure/contrast op used
Apply(t) ==
    /\ CanCall(t)
    /\ Finalized
    /\ thr' = [thr EXCEPT ![t] = End([Begin(t, "apply") EXCEPT
                    !.ret = [r |-> "applied", seen |-> m_ops, set |-> handles,
                             used |-> [j \in 1..Len(m_ops) |->
                                 IF m_ops[j].type = "ExposureContrast"
                                 THEN [kind \in PropertyKinds |->
                                          Op_valueUsed(m_ops[j], kind)]
                                 ELSE <<>>]]])]
    /\ UNCHANGED <<rawOps, m_ops, m_props, propValue, m_cacheID,
                   m_hasChannelCrosstalk, m_mutex, handles, optVars, dataVars, ifaceVars>>

\* extractGpuShaderInfo: AutoMutex lock(m_mutex) and the dynamic_cast
Extract_Lock(t) ==
    /\ CanCall(t)
    /\ m_mutex = Unlocked
    /\ \E legacy \in BOOLEAN :
        thr' = [thr EXCEPT ![t] = [Begin(t, "extractGpuShaderInfo") EXCEPT
                    !.legacy = legacy,
                    !.pc = IF legacy THEN "x_partition" ELSE "x_copy"]]
    /\ m_mutex' = t
    /\ UNCHANGED <<rawOps, m_ops, m_props, propValue, m_cacheID,
                   m_hasChannelCrosstalk, handles, optVars, dataVars, ifaceVars>>

\* legacy: gpuOps = m_ops; PartitionGPUOps(pre, lattice, post, gpuOps)
Extract_Partition(t) ==
    /\ thr[t].pc = "x_partition"
    /\ thr' = [thr EXCEPT ![t] = [thr[t] EXCEPT
                    !.gpuOps = m_ops,
                    !.parts = PartitionGPUOps(m_ops),
                    !.events = Append(@, "partition"),
                    !.pc = "x_lut"]]
    /\ UNCHANGED <<rawOps, m_ops, m_props, propValue, m_cacheID,
                   m_hasChannelCrosstalk, m_mutex, handles, optVars, dataVars, ifaceVars>>

\* legacy: FinalizeOpVec(lattice); gpuLut = Create3DLut(lattice, edgelen)
Extract_Create3DLut(t) ==
    /\ thr[t].pc = "x_lut"
    /\ thr' = [thr EXCEPT ![t] = [thr[t] EXCEPT
                    !.gpuLut = Create3DLut(FinalizeOpVec(thr[t].parts.lattice)),
                    !.events = @ \o <<"finalizeLattice", "create3DLut">>,
                    !.pc = "x_rebuild"]]
    /\ UNCHANGED <<rawOps, m_ops, m_props, propValue, m_cacheID,
                   m_hasChannelCrosstalk, m_mutex, handles, optVars, dataVars, ifaceVars>>

\* variant: the suffix is spliced before the prefix
Extract_Rebuild_SuffixFirst(t) ==
    /\ thr[t].pc = "x_rebuild"
    /\ thr' = [thr EXCEPT ![t] = [thr[t] EXCEPT
                    !.gpuOps = thr[t].parts.post \o thr[t].gpuLut
                               \o thr[t].parts.pre,
                    !.events = Append(@, "rebuild"),
                    !.pc = "x_optimize"]]
    /\ UNCHANGED <<rawOps, m_ops, m_props, propValue, m_cacheID,
                   m_hasChannelCrosstalk, m_mutex, handles, optVars, dataVars, ifaceVars>>

\* legacy: gpuOps.clear(); gpuOps += pre; gpuOps += gpuLut; gpuOps += post
Extract_Rebuild(t) ==
    /\ thr[t].pc = "x_rebuild"
    /\ thr' = [thr EXCEPT ![t] = [thr[t] EXCEPT
                    !.gpuOps = thr[t].parts.pre \o thr[t].gpuLut
                               \o thr[t].parts.post,
                    !.events = Append(@, "rebuild"),
                    !.pc = "x_optimize"]]
    /\ UNCHANGED <<rawOps, m_ops, m_props, propValue, m_cacheID,
                   m_hasChannelCrosstalk, m_mutex, handles, optVars, dataVars, ifaceVars>>

\* variant: the legacy path re-optimizes the processor's own list
Extract_Reoptimize_InPlace(t) ==
    /\ thr[t].pc = "x_optimize"
    /\ thr' = [thr EXCEPT ![t] = [thr[t] EXCEPT
                    !.gpuOps = FinalizeOpVec(OptimizeOpVecOf(@, "F32", TRUE)),
                    !.events = @ \o <<"optimize", "finalize">>,
                    !.pc = "x_code"]]
    /\ m_ops' = thr'[t].gpuOps
    /\ UNCHANGED <<rawOps, m_props, propValue, m_cacheID,
                   m_hasChannelCrosstalk, m_mutex, handles, optVars, dataVars, ifaceVars>>

\* legacy: OptimizeOpVec(gpuOps, BIT_DEPTH_F32, OPTIMIZATION_DEFAULT);
\* FinalizeOpVec(gpuOps, FINALIZATION_DEFAULT)
Extract_Reoptimize(t) ==
    /\ thr[t].pc = "x_optimize"
    /\ thr' = [thr EXCEPT ![t] = [thr[t] EXCEPT
                    !.gpuOps = FinalizeOpVec(OptimizeOpVecOf(@, "F32", TRUE)),
                    !.events = @ \o <<"optimize", "finalize">>,
                    !.pc = "x_code"]]
    /\ UNCHANGED <<rawOps, m_ops, m_props, propValue, m_cacheID,
                   m_hasChannelCrosstalk, m_mutex, handles, optVars, dataVars, ifaceVars>>

\* not legacy: gpuOps = m_ops
Extract_Copy(t) ==
    /\ thr[t].pc = "x_copy"
    /\ thr' = [thr EXCEPT ![t] = [thr[t] EXCEPT !.gpuOps = m_ops,
                                                !.pc = "x_code"]]
    /\ UNCHANGED <<rawOps, m_ops, m_props, propValue, m_cacheID,
                   m_hasChannelCrosstalk, m_mutex, handles, optVars, dataVars, ifaceVars>>

\* one iteration of the loop: op->extractGpuShaderInfo(shaderDesc) returns
Extract_OpCode(t) ==
    /\ thr[t].pc = "x_code"
    /\ Len(thr[t].coded) < Len(thr[t].gpuOps)
    /\ Op_hasShaderGenerator(thr[t].gpuOps[Len(thr[t].coded) + 1])
    /\ thr' = [thr EXCEPT ![t] = [thr[t] EXCEPT
                    !.coded = Append(@, thr[t].gpuOps[Len(thr[t].coded) + 1]),
                    !.events = Append(@, "code")]]
    /\ UNCHANGED <<rawOps, m_ops, m_props, propValue, m_cacheID,
                   m_hasChannelCrosstalk, m_mutex, handles, optVars, dataVars, ifaceVars>>

\* one iteration of the loop: op->extractGpuShaderInfo(shaderDesc) throws,
\* and the exception leaves extractGpuShaderInfo
Extract_OpThrow(t) ==
    /\ thr[t].pc = "x_code"
    /\ Len(thr[t].coded) < Len(thr[t].gpuOps)
    /\ ~Op_hasShaderGenerator(thr[t].gpuOps[Len(thr[t].coded) + 1])
    /\ thr' = [thr EXCEPT ![t] = End([thr[t] EXCEPT
                    !.raised = TRUE,
                    !.ret = [r |-> "exception"]])]
    /\ m_mutex' = AutoMutex_Unwind(t)
    /\ UNCHANGED <<rawOps, m_ops, m_props, propValue, m_cacheID,
                   m_hasChannelCrosstalk, handles, optVars, dataVars, ifaceVars>>

\* WriteShaderHeader(shaderDesc)
Extract_Header(t) ==
    /\ thr[t].pc = "x_code"
    /\ Len(thr[t].coded) = Len(thr[t].gpuOps)
    /\ thr' = [thr EXCEPT ![t] = [thr[t] EXCEPT
                    !.events = Append(@, "header"), !.pc = "x_footer"]]
    /\ UNCHANGED <<rawOps, m_ops, m_props, propValue, m_cacheID,
                   m_hasChannelCrosstalk, m_mutex, handles, optVars, dataVars, ifaceVars>>

\* WriteShaderFooter(shaderDesc)
Extract_Footer(t) ==
    /\ thr[t].pc = "x_footer"
    /\ thr' = [thr EXCEPT ![t] = [thr[t] EXCEPT
                    !.events = Append(@, "footer"), !.pc = "x_finalize"]]
    /\ UNCHANGED <<rawOps, m_ops, m_props, propValue, m_cacheID,
                   m_hasChannelCrosstalk, m_mutex, handles, optVars, dataVars, ifaceVars>>

\* shaderDesc->finalize(), and the return
Extract_DescFinalize(t) ==
    /\ thr[t].pc = "x_finalize"
    /\ thr' = [thr EXCEPT ![t] = End([thr[t] EXCEPT
                    !.events = Append(@, "descFinalize"),
                    !.ret = [r |-> "shader"]])]
    /\ m_mutex' = AutoMutex_Release(t)
    /\ UNCHANGED <<rawOps, m_ops, m_props, propValue, m_cacheID,
                   m_hasChannelCrosstalk, handles, optVars, dataVars, ifaceVars>>

NextGPU ==
    \E t \in Threads :
        \/ Finalize_Lock(t)
        \/ Finalize_Assign(t)
        \/ Finalize_Optimize(t)
        \/ Finalize_ClearCrosstalk(t)
        \/ Finalize_Crosstalk(t)
        \/ Finalize_CacheID(t)
        \/ GetDynamicProperty(t)
        \/ GetDynamicProperty_Race(t)
        \/ GetCacheID(t)
        \/ HasChannelCrosstalk(t)
        \/ SetValue(t)
        \/ Apply(t)
        \/ Extract_Lock(t)
        \/ Extract_Partition(t)
        \/ Extract_Create3DLut(t)
        \/ Extract_Rebuild(t)
        \/ Extract_Reoptimize(t)
        \/ Extract_Copy(t)
        \/ Extract_OpCode(t)
        \/ Extract_OpThrow(t)
        \/ Extract_Header(t)
        \/ Extract_Footer(t)
        \/ Extract_DescFinalize(t)

SpecGPU == InitGPU /\ [][NextGPU]_vars

(***************************************************************************)
(* CombineOps over an abstract Op class: canCombineWith and combineWith    *)
(* are any functions of the two ops, combineWith handing back zero, one or *)
(* two ops of the class.                                                   *)
(***************************************************************************)
MaxAbstractLen == 2
MaxCombineCount == 3

AbstractNames == {1, 2}
AbstractOp(n) == Op("Abstract", "fwd", n, FALSE)
AbstractOps == {AbstractOp(n) : n \in AbstractNames}

\* what canCombineWith answers for a pair and what combineWith puts in tmpops
CombineBehaviours ==
    {[can |-> FALSE, ops |-> <<>>]}
    \cup {[can |-> TRUE, ops |-> w] : w \in SeqsUpTo(AbstractOps, 2)}

CombineTables == [AbstractNames \X AbstractNames -> CombineBehaviours]

InitCombine ==
    /\ ops \in SeqsUpTo(AbstractOps, MaxAbstractLen)
    /\ combineTable \in CombineTables
    /\ OptimizerIdle
    /\ DataIdle
    /\ GPUIdle
    /\ RangeIdle
    /\ AllocIdle

\* one iteration of the loop of CombineOps; the count is followed up to
\* MaxCombineCount
CombineOps_BodyAbstract ==
    /\ pc = "CombineOps"
    /\ firstindex < SizeMinusOne(ops)
    /\ LET s == CombineOpsIter(
                    [ops |-> ops, firstindex |-> firstindex, count |-> count])
       IN  /\ ops' = s.ops
           /\ firstindex' = s.firstindex
           /\ count' = IF s.count > MaxCombineCount THEN MaxCombineCount
                       ELSE s.count
    /\ UNCHANGED <<pc, Locals, Args, dataVars, gpuVars, ifaceVars>>

NextCombine ==
    \/ Call_CombineOps
    \/ CombineOps_BodyAbstract
    \/ CombineOps_Return

\* a call that can take a step takes one
SpecCombine == InitCombine /\ [][NextCombine]_vars /\ WF_vars(NextCombine)

(***************************************************************************)
(* The Range renderers.  A float is an integer of the lattice, NaN, or one *)
(* of the two infinities; every comparison with a NaN is false.            *)
(***************************************************************************)
PosInf == 999
NegInf == -999

IsInf(a) == a \in {PosInf, NegInf}

\* a * b in float arithmetic
FloatMul(a, b) ==
    IF a = NaN \/ b = NaN THEN NaN
    ELSE IF IsInf(a) \/ IsInf(b)
         THEN IF a = 0 \/ b = 0 THEN NaN
              ELSE IF (a > 0) = (b > 0) THEN PosInf ELSE NegInf
         ELSE a * b

\* a + b in float arithmetic
FloatAdd(a, b) ==
    IF a = NaN \/ b = NaN THEN NaN
    ELSE IF IsInf(a) /\ IsInf(b) THEN (IF a = b THEN a ELSE NaN)
    ELSE IF IsInf(a) THEN a
    ELSE IF IsInf(b) THEN b
    ELSE a + b

\* std::max(a, b) is (a < b) ? b : a
std_max(a, b) == IF DoubleLT(a, b) THEN b ELSE a

\* std::min(a, b) is (b < a) ? b : a
std_min(a, b) == IF DoubleLT(b, a) THEN b ELSE a

\* Clamp(a, min, max); a NaN becomes min
Clamp(a, min, max) == std_min(std_max(min, a), max)

\* RangeOpData::EmptyValue(), the value of a bound that is not set
EmptyValue == NaN

RangeOpData(scale, offset, minOut, maxOut) ==
    [scale |-> scale, offset |-> offset, minOut |-> minOut, maxOut |-> maxOut]

minIsEmpty(r) == r.minOut = EmptyValue
maxIsEmpty(r) == r.maxOut = EmptyValue
scales(r) == r.scale # 1 \/ r.offset # 0

\* the Ranges rendered: an offset needs a bound, and a lower bound lies
\* below the upper bound
RangeOpDatas ==
    {r \in {RangeOpData(s, o, lo, hi) :
                s \in {1, 2}, o \in {0, 1},
                lo \in {EmptyValue, 0, 1}, hi \in {EmptyValue, 1, 2}} :
        /\ (minIsEmpty(r) /\ maxIsEmpty(r)) => r.offset = 0
        /\ (~minIsEmpty(r) /\ ~maxIsEmpty(r)) => r.minOut < r.maxOut}

FloatValues == {-1, 1, 3, NaN, PosInf, NegInf}
Pixels == [1..4 -> FloatValues]

\* RangeOpCPU::RangeOpCPU, for the renderer class cls
RangeOpCPU(cls, r) ==
    [class |-> cls, m_scale |-> r.scale, m_offset |-> r.offset,
     m_lowerBound |-> r.minOut, m_upperBound |-> r.maxOut]

\* in[i] * m_scale + m_offset
ScaleOffset(c, in, i) == FloatAdd(FloatMul(in[i], c.m_scale), c.m_offset)

RangeScaleMinMaxRenderer_apply(c, in) ==
    <<Clamp(ScaleOffset(c, in, 1), c.m_lowerBound, c.m_upperBound),
      Clamp(ScaleOffset(c, in, 2), c.m_lowerBound, c.m_upperBound),
      Clamp(ScaleOffset(c, in, 3), c.m_lowerBound, c.m_upperBound),
      in[4]>>

RangeScaleMinRenderer_apply(c, in) ==
    <<std_max(c.m_lowerBound, ScaleOffset(c, in, 1)),
      std_max(c.m_lowerBound, ScaleOffset(c, in, 2)),
      std_max(c.m_lowerBound, ScaleOffset(c, in, 3)),
      in[4]>>

RangeScaleMaxRenderer_apply(c, in) ==
    <<std_min(c.m_upperBound, ScaleOffset(c, in, 1)),
      std_min(c.m_upperBound, ScaleOffset(c, in, 2)),
      std_min(c.m_upperBound, ScaleOffset(c, in, 3)),
      in[4]>>

RangeScaleRenderer_apply(c, in) ==
    <<ScaleOffset(c, in, 1), ScaleOffset(c, in, 2), ScaleOffset(c, in, 3),
      in[4]>>

\* variant: the clamp is applied to all four channels
RangeMinMaxRenderer_apply_AllChannels(c, in) ==
    [i \in 1..4 |-> Clamp(in[i], c.m_lowerBound, c.m_upperBound)]

RangeMinMaxRenderer_apply(c, in) ==
    <<Clamp(in[1], c.m_lowerBound, c.m_upperBound),
      Clamp(in[2], c.m_lowerBound, c.m_upperBound),
      Clamp(in[3], c.m_lowerBound, c.m_upperBound),
      in[4]>>

\* the Range(min, empty) clamp on a whole pixel
RangeMinRenderer_applyPixel(c, in) ==
    <<std_max(c.m_lowerBound, in[1]),
      std_max(c.m_lowerBound, in[2]),
      std_max(c.m_lowerBound, in[3]),
      in[4]>>

\* variant: a NaN is mapped to the lower bound
RangeMaxRenderer_apply_NaNToLower(c, in) ==
    [i \in 1..4 |->
        IF i = 4 THEN in[4]
        ELSE IF in[i] = NaN THEN c.m_lowerBound
        ELSE std_min(c.m_upperBound, in[i])]

RangeMaxRenderer_apply(c, in) ==
    <<std_min(c.m_upperBound, in[1]),
      std_min(c.m_upperBound, in[2]),
      std_min(c.m_upperBound, in[3]),
      in[4]>>

\* OpCPU::apply, dispatched on the class of the renderer
OpCPU_apply(c, in) ==
    CASE c.class = "RangeScaleMinMaxRenderer" ->
             RangeScaleMinMaxRenderer_apply(c, in)
      [] c.class = "RangeScaleMinRenderer" -> RangeScaleMinRenderer_apply(c, in)
      [] c.class = "RangeScaleMaxRenderer" -> RangeScaleMaxRenderer_apply(c, in)
      [] c.class = "RangeScaleRenderer" -> RangeScaleRenderer_apply(c, in)
      [] c.class = "RangeMinMaxRenderer" -> RangeMinMaxRenderer_apply(c, in)
      [] c.class = "RangeMinRenderer" -> RangeMinRenderer_applyPixel(c, in)
      [] c.class = "RangeMaxRenderer" -> RangeMaxRenderer_apply(c, in)

\* GetRangeRenderer: the renderer made for r, or NoObject where it throws
\* "No processing as the Range is a NoOp"
GetRangeRenderer(r) ==
    IF scales(r)
    THEN IF ~minIsEmpty(r)
         THEN IF ~maxIsEmpty(r)
              THEN RangeOpCPU("RangeScaleMinMaxRenderer", r)
              ELSE RangeOpCPU("RangeScaleMinRenderer", r)
         ELSE IF ~maxIsEmpty(r)
              THEN RangeOpCPU("RangeScaleMaxRenderer", r)
              ELSE RangeOpCPU("RangeScaleRenderer", r)
    ELSE IF ~minIsEmpty(r)
         THEN IF ~maxIsEmpty(r)
              THEN RangeOpCPU("RangeMinMaxRenderer", r)
              ELSE RangeOpCPU("RangeMinRenderer", r)
         ELSE IF ~maxIsEmpty(r)
              THEN RangeOpCPU("RangeMaxRenderer", r)
              ELSE NoObject

\* one statement of the shader text: the pixel components it assigns, the
\* function it applies, the constants, and the pixel components it reads
ShaderLine(lhs, f, k, rhs) == [lhs |-> lhs, fn |-> f, k |-> k, rhs |-> rhs]

\* GetRangeGPUShaderProgram: the text added to the shader for r
GetRangeGPUShaderProgram(r) ==
    <<ShaderLine("", "// Add a Range processing", <<>>, "")>>
    \o (IF scales(r)
        THEN <<ShaderLine(".rgb", "mad", <<r.scale, r.offset>>, ".rgb")>>
        ELSE <<>>)
    \o (IF ~minIsEmpty(r)
        THEN <<ShaderLine(".rgb", "max", <<r.minOut>>, ".rgb")>>
        ELSE <<>>)
    \o (IF ~maxIsEmpty(r)
        THEN <<ShaderLine(".rgb", "min", <<r.maxOut>>, ".rgb")>>
        ELSE <<>>)

InitRange ==
    /\ ops = <<>>
    /\ OptimizerIdle
    /\ DataIdle
    /\ GPUIdle
    /\ combineTable = <<>>
    /\ AllocIdle
    /\ range \in RangeOpDatas
    /\ inImg \in Pixels
    /\ renderer = NoObject
    /\ rangeRaised = FALSE
    /\ outImg = <<>>
    /\ shaderCode = <<>>

\* the client asks for the CPU renderer of the Range
Call_GetRangeRenderer ==
    /\ renderer = NoObject
    /\ ~rangeRaised
    /\ renderer' = GetRangeRenderer(range)
    /\ rangeRaised' = (GetRangeRenderer(range) = NoObject)
    /\ UNCHANGED <<range, inImg, outImg, shaderCode, optVars, dataVars,
                   gpuVars, combineTable, allocVars>>

\* the client applies the renderer to the pixel
Call_apply ==
    /\ renderer # NoObject
    /\ outImg = <<>>
    /\ outImg' = OpCPU_apply(renderer, inImg)
    /\ UNCHANGED <<range, renderer, rangeRaised, inImg, shaderCode, optVars,
                   dataVars, gpuVars, combineTable, allocVars>>

\* the client asks for the shader text of the Range
Call_GetRangeGPUShaderProgram ==
    /\ shaderCode = <<>>
    /\ shaderCode' = GetRangeGPUShaderProgram(range)
    /\ UNCHANGED <<range, renderer, rangeRaised, inImg, outImg, optVars,
                   dataVars, gpuVars, combineTable, allocVars>>

NextRange ==
    \/ Call_GetRangeRenderer
    \/ Call_apply
    \/ Call_GetRangeGPUShaderProgram

SpecRange == InitRange /\ [][NextRange]_vars

(***************************************************************************)
(* CreateAllocationOps.  The Log and Fit ops it appends are made by        *)
(* CreateLogOp and CreateFitOp; an op carries its direction and the        *)
(* parameters the allocation variables give it.                            *)
(***************************************************************************)
Allocations == {"ALLOCATION_UNKNOWN", "ALLOCATION_UNIFORM", "ALLOCATION_LG2"}
TransformDirections == {"unknown", "fwd", "inv"}

AllocationData(allocation, v) == [allocation |-> allocation, vars |-> v]

\* data.vars: up to three values, the first below the second
AllocationVars ==
    {v \in SeqsUpTo({0, 1, 10}, 3) : Len(v) >= 2 => v[1] < v[2]}

\* the op CreateFitOp makes: oldmin and oldmax of R, G and B, fitted to [0, 1]
FitOp(oldmin, oldmax, dir) == Op("Fit", dir, <<oldmin, oldmax>>, FALSE)

\* the op CreateLogOp makes: base 2, unit slopes, the given linOffset
Lg2Op(linOffset, dir) == Op("Log", dir, <<linOffset>>, FALSE)

\* variant: the op is appended before the direction is looked at
CreateFitOp_AppendFirst(opVec, oldmin, oldmax, dir) ==
    [ops |-> Append(opVec, FitOp(oldmin, oldmax, dir)),
     raised |-> dir = "unknown"]

\* CreateFitOp(ops, oldmin, oldmax, newmin, newmax, dir): throws
\* "unspecified transform direction" before it appends
CreateFitOp(opVec, oldmin, oldmax, dir) ==
    IF dir = "unknown"
    THEN [ops |-> opVec, raised |-> TRUE]
    ELSE [ops |-> Append(opVec, FitOp(oldmin, oldmax, dir)), raised |-> FALSE]

\* CreateLogOp(ops, base, logSlope, logOffset, linSlope, linOffset, dir),
\* called with a forward or an inverse direction
CreateLogOp(opVec, linOffset, dir) == Append(opVec, Lg2Op(linOffset, dir))

\* oldmin[i], oldmax[i] and linOffset[i], i < 3, as the allocation sets them
Alloc_oldmin(data) ==
    IF Len(data.vars) >= 2 THEN data.vars[1]
    ELSE IF data.allocation = "ALLOCATION_LG2" THEN -10 ELSE 0

Alloc_oldmax(data) ==
    IF Len(data.vars) >= 2 THEN data.vars[2]
    ELSE IF data.allocation = "ALLOCATION_LG2" THEN 6 ELSE 1

Alloc_linOffset(data) == IF Len(data.vars) >= 3 THEN data.vars[3] ELSE 0

\* CreateAllocationOps as a function: the ops when it returns or throws
CreateAllocationOps(opVec, data, dir) ==
    LET fit(v) == CreateFitOp(v, Alloc_oldmin(data), Alloc_oldmax(data), dir)
        log(v) == CreateLogOp(v, Alloc_linOffset(data), dir)
    IN  IF data.allocation = "ALLOCATION_UNIFORM" THEN fit(opVec)
        ELSE IF data.allocation = "ALLOCATION_LG2"
        THEN IF dir = "fwd" THEN fit(log(opVec))
             ELSE IF dir = "inv"
                  THEN [ops |-> log(fit(opVec).ops), raised |-> FALSE]
                  ELSE [ops |-> opVec, raised |-> TRUE]
        ELSE [ops |-> opVec, raised |-> TRUE]

\* the ops the caller may already hold
AllocOpsBefore == {<<>>, <<Lg2Op(0, "fwd")>>}

InitAlloc ==
    /\ ops = <<>>
    /\ OptimizerIdle
    /\ DataIdle
    /\ GPUIdle
    /\ combineTable = <<>>
    /\ RangeIdle
    /\ allocData = NoObject
    /\ allocDir = "none"
    /\ allocOps \in AllocOpsBefore
    /\ allocInput = <<>>
    /\ allocPc = "idle"

AllocRest == <<optVars, dataVars, gpuVars, combineTable, rangeVars>>

Call_CreateAllocationOps ==
    /\ allocPc = "idle"
    /\ \E a \in Allocations, v \in AllocationVars, d \in TransformDirections :
        /\ allocData' = AllocationData(a, v)
        /\ allocDir' = d
    /\ allocInput' = allocOps
    /\ allocPc' = "entry"
    /\ UNCHANGED <<allocOps, AllocRest>>

\* the ALLOCATION_UNIFORM branch
CreateAllocationOps_Uniform ==
    /\ allocPc = "entry"
    /\ allocData.allocation = "ALLOCATION_UNIFORM"
    /\ LET r == CreateFitOp(allocOps, Alloc_oldmin(allocData),
                            Alloc_oldmax(allocData), allocDir)
       IN  /\ allocOps' = r.ops
           /\ allocPc' = IF r.raised THEN "raised" ELSE "returned"
    /\ UNCHANGED <<allocData, allocDir, allocInput, AllocRest>>

\* ALLOCATION_LG2, forward: CreateLogOp
CreateAllocationOps_ForwardLog ==
    /\ allocPc = "entry"
    /\ allocData.allocation = "ALLOCATION_LG2"
    /\ allocDir = "fwd"
    /\ allocOps' = CreateLogOp(allocOps, Alloc_linOffset(allocData), allocDir)
    /\ allocPc' = "forward_fit"
    /\ UNCHANGED <<allocData, allocDir, allocInput, AllocRest>>

\* ALLOCATION_LG2, forward: CreateFitOp
CreateAllocationOps_ForwardFit ==
    /\ allocPc = "forward_fit"
    /\ LET r == CreateFitOp(allocOps, Alloc_oldmin(allocData),
                            Alloc_oldmax(allocData), allocDir)
       IN  /\ allocOps' = r.ops
           /\ allocPc' = IF r.raised THEN "raised" ELSE "returned"
    /\ UNCHANGED <<allocData, allocDir, allocInput, AllocRest>>

\* ALLOCATION_LG2, inverse: CreateFitOp
CreateAllocationOps_InverseFit ==
    /\ allocPc = "entry"
    /\ allocData.allocation = "ALLOCATION_LG2"
    /\ allocDir = "inv"
    /\ LET r == CreateFitOp(allocOps, Alloc_oldmin(allocData),
                            Alloc_oldmax(allocData), allocDir)
       IN  /\ allocOps' = r.ops
           /\ allocPc' = IF r.raised THEN "raised" ELSE "inverse_log"
    /\ UNCHANGED <<allocData, allocDir, allocInput, AllocRest>>

\* ALLOCATION_LG2, inverse: CreateLogOp
CreateAllocationOps_InverseLog ==
    /\ allocPc = "inverse_log"
    /\ allocOps' = CreateLogOp(allocOps, Alloc_linOffset(allocData), allocDir)
    /\ allocPc' = "returned"
    /\ UNCHANGED <<allocData, allocDir, allocInput, AllocRest>>

\* ALLOCATION_LG2, neither forward nor inverse
CreateAllocationOps_ThrowDirection ==
    /\ allocPc = "entry"
    /\ allocData.allocation = "ALLOCATION_LG2"
    /\ allocDir \notin {"fwd", "inv"}
    /\ allocPc' = "raised"
    /\ UNCHANGED <<allocData, allocDir, allocOps, allocInput, AllocRest>>

\* neither ALLOCATION_UNIFORM nor ALLOCATION_LG2
CreateAllocationOps_ThrowUnsupported ==
    /\ allocPc = "entry"
    /\ allocData.allocation \notin {"ALLOCATION_UNIFORM", "ALLOCATION_LG2"}
    /\ allocPc' = "raised"
    /\ UNCHANGED <<allocData, allocDir, allocOps, allocInput, AllocRest>>

NextAlloc ==
    \/ Call_CreateAllocationOps
    \/ CreateAllocationOps_Uniform
    \/ CreateAllocationOps_ForwardLog
    \/ CreateAllocationOps_ForwardFit
    \/ CreateAllocationOps_InverseFit
    \/ CreateAllocationOps_InverseLog
    \/ CreateAllocationOps_ThrowDirection
    \/ CreateAllocationOps_ThrowUnsupported

SpecAlloc == InitAlloc /\ [][NextAlloc]_vars

(***************************************************************************)
(* Rendering, for the ops whose pixel arithmetic is exact on the lattice:  *)
(* scale matrices, the Range(0, empty, 0, empty) clamp, and identity CDLs  *)
(* (rendered as their identity replacement).                               *)
(***************************************************************************)
Zero == [s |-> 0, j |-> 0]

Values == {Zero} \cup {[s |-> sg, j |-> e] : sg \in {-1, 1}, e \in {-1, 0, 1}}

\* out = std::max(m_lowerBound, in) with m_lowerBound = 0
RangeMinRenderer_apply(v) == IF v.s < 0 THEN Zero ELSE v

\* out = in * 2^k
ScaleRenderer_apply(k, v) == IF v.s = 0 THEN v ELSE [v EXCEPT !.j = v.j + k]

HasExactRendering(op) ==
    \/ op.type = "Matrix"
    \/ op.type = "Range"
    \/ op.type = "CDL" /\ CDL_isIdentity(cdlData(op))

Op_apply(op, v) ==
    CASE op.type = "Matrix" -> ScaleRenderer_apply(op.p, v)
      [] op.type = "Range" -> RangeMinRenderer_apply(v)
      [] op.type = "CDL" ->
            IF CDL_getIdentityReplacement(cdlData(op)) = "range"
            THEN RangeMinRenderer_apply(v)
            ELSE ScaleRenderer_apply(0, v)
      [] OTHER -> v

\* for (op : opVec) op->apply(img, img, n)
RECURSIVE ApplyOps(_, _)
ApplyOps(opVec, v) ==
    IF opVec = <<>> THEN v ELSE ApplyOps(Tail(opVec), Op_apply(Head(opVec), v))

(***************************************************************************)
(* Vocabulary of the properties.                                           *)
(***************************************************************************)
Returned(f) == pc = "idle" /\ fn = f

\* A, B, ..., B', A' with every centre pair same-type and mutually inverse
RECURSIVE IsInverseNest(_)
IsInverseNest(w) ==
    \/ w = <<>>
    \/ /\ Len(w) >= 2
       /\ Op_isSameType(w[1], w[Len(w)])
       /\ Op_isInverse(w[1], w[Len(w)])
       /\ IsInverseNest(SubSeq(w, 2, Len(w) - 1))

\* the ops before the first op with channel crosstalk or a dynamic property
LeadingRun(w) ==
    LET stop == {i \in 1..Len(w) :
                    Op_hasChannelCrosstalk(w[i]) \/ Op_isDynamic(w[i])}
    IN  IF stop = {} THEN Len(w)
        ELSE (CHOOSE i \in stop : \A k \in stop : i <= k) - 1

IsForwardLut1D(op) == op.type = "Lut1D" /\ op.style = "fwd"

BakingDepth(bd) == bd \notin {"F32", "UINT32"}

(***************************************************************************)
(* C1: one scan of RemoveInverseOps turns every nested sequence            *)
(* A, B, ..., B', A' whose centre pairs are same-type and mutually         *)
(* inverse (and so the pair O, O') into the empty sequence.                *)
(***************************************************************************)
C1_NestedInversesVanishInOneScan ==
    (Returned("RemoveInverseOps") /\ IsInverseNest(input)) => ops = <<>>

C1_Witness ==
    /\ Returned("RemoveInverseOps")
    /\ Len(input) >= 4
    /\ IsInverseNest(input)
    /\ input[1].type # input[2].type
    /\ count = Len(input) \div 2
    /\ ops = <<>>

(***************************************************************************)
(* C2 (as claimed): a second run of OptimizeOpVec on the result of a first *)
(* run, same bit depth and flags, leaves the sequence unchanged.           *)
(***************************************************************************)
C2_RerunChangesNothing ==
    (Returned("OptimizeOpVec") /\ calls >= 2) => ops = input

(***************************************************************************)
(* C2 (amended): a second run of OptimizeOpVec leaves the sequence         *)
(* unchanged whenever the first run did not leave its pass loop on the     *)
(* pass budget.                                                            *)
(***************************************************************************)
C2_RerunAfterFixedPointChangesNothing ==
    (Returned("OptimizeOpVec") /\ calls >= 2 /\ prevExit # "budget")
        => ops = input

C2_Witness ==
    /\ Returned("OptimizeOpVec")
    /\ calls = 2
    /\ prevExit = "break"
    /\ Len(input) >= 2
    /\ input[1] = ComposedLut(inBitDepth)
    /\ ops = input

(***************************************************************************)
(* C3: optimization preserves the rendered result: for every input value,  *)
(* the optimized ops applied in order give what the original ops give.     *)
(* (Stated for pipelines of exactly rendered ops, without prefix baking.)  *)
(***************************************************************************)
C3_OptimizationPreservesRendering ==
    (/\ Returned("OptimizeOpVec")
     /\ ~oFlags
     /\ \A i \in 1..Len(input) : HasExactRendering(input[i]))
        => \A v \in Values : ApplyOps(ops, v) = ApplyOps(input, v)

(***************************************************************************)
(* C4: OptimizeOpVec executes its pass body at most 8 times.               *)
(***************************************************************************)
C4_AtMostEightPasses == bodyRuns <= MAX_OPTIMIZATION_PASSES

(***************************************************************************)
(* C5: when the pass loop is left because the pass budget is exhausted,    *)
(* the max-passes diagnostic is logged.                                    *)
(***************************************************************************)
C5_ExhaustedBudgetIsLogged ==
    (Returned("OptimizeOpVec") /\ loopExit = "budget") => logged

(***************************************************************************)
(* C6: with a working depth of F32 or UINT32, or without the               *)
(* compose-separable-prefix flag, the separable-prefix stage leaves the    *)
(* sequence exactly as the pass loop left it.                              *)
(***************************************************************************)
C6_NoBakingForFloatOrUnflagged ==
    /\ (Returned("OptimizeOpVec") /\ (~BakingDepth(inBitDepth) \/ ~oFlags))
            => ops = afterLoop
    /\ (Returned("OptimizeSeparablePrefix") /\ ~BakingDepth(inBitDepth))
            => ops = input

C6_Witness ==
    /\ Returned("OptimizeOpVec")
    /\ inBitDepth = "UINT32"
    /\ oFlags
    /\ loopExit = "break"
    /\ LeadingRun(afterLoop) >= 2
    /\ \E i \in 1..LeadingRun(afterLoop) : afterLoop[i].type = "Exponent"
    /\ ops = afterLoop

(***************************************************************************)
(* C7: at a baking depth, OptimizeSeparablePrefix leaves the sequence      *)
(* unchanged (FindSeparablePrefix returns 0) when the leading separable    *)
(* non-dynamic run holds only Matrix and Range ops, and when it is exactly *)
(* one forward 1D LUT; a run of exactly one inverse 1D LUT is replaced.    *)
(***************************************************************************)
C7_CheapOrSingleLutPrefixIsKept ==
    (Returned("OptimizeSeparablePrefix") /\ BakingDepth(inBitDepth)) =>
        LET n == LeadingRun(input)
        IN  /\ (\A i \in 1..n : input[i].type \in {"Matrix", "Range"})
                => (FindSeparablePrefix(input) = 0 /\ ops = input)
            /\ (n = 1 /\ IsForwardLut1D(input[1]))
                => (FindSeparablePrefix(input) = 0 /\ ops = input)
            /\ (n = 1 /\ input[1].type = "Lut1D" /\ input[1].style = "inv")
                => (/\ FindSeparablePrefix(input) = 1
                    /\ ops = <<ComposedLut(inBitDepth)>> \o Tail(input))

C7_Witness ==
    /\ Returned("OptimizeSeparablePrefix")
    /\ BakingDepth(inBitDepth)
    /\ LeadingRun(input) = 2
    /\ {input[1].type, input[2].type} = {"Matrix", "Range"}
    /\ Len(input) = 3
    /\ ops = input

(***************************************************************************)
(* C8: when OptimizeSeparablePrefix bakes, the run of length n it replaces *)
(* is the maximal leading run of ops without crosstalk and not dynamic; it *)
(* is replaced by one forward 1D LUT (new length = old length - n + 1),    *)
(* and the ops after the run are kept in their order.                      *)
(***************************************************************************)
C8_BakingReplacesExactlyTheLeadingRun ==
    (Returned("OptimizeSeparablePrefix") /\ ops # input) =>
        LET n == LeadingRun(input)
        IN  /\ n >= 1
            /\ Len(ops) = Len(input) - n + 1
            /\ IsForwardLut1D(ops[1])
            /\ SubSeq(ops, 2, Len(ops)) = SubSeq(input, n + 1, Len(input))

C8_Witness ==
    /\ Returned("OptimizeSeparablePrefix")
    /\ Len(input) = 3
    /\ LeadingRun(input) = 2
    /\ Op_isDynamic(input[3])
    /\ ops = <<ComposedLut(inBitDepth), input[3]>>

(***************************************************************************)
(* C9: one call of CombineOps completes the cascades: a run of scale       *)
(* matrices collapses to one op, or to none when their product is the      *)
(* identity; E, M1, M2, E' with M1 M2 = identity and E combinable with E'  *)
(* collapses to the empty sequence; a single op is left unchanged.         *)
(***************************************************************************)
RECURSIVE SumOfScales(_)
SumOfScales(w) == IF w = <<>> THEN 0 ELSE Head(w).p + SumOfScales(Tail(w))

C9_CombineOpsCompletesCascades ==
    Returned("CombineOps") =>
        /\ (input # <<>> /\ \A i \in 1..Len(input) : input[i].type = "Matrix")
            => ops = IF SumOfScales(input) = 0 THEN <<>>
                     ELSE <<ScaleOp(SumOfScales(input))>>
        /\ (\E e \in {-1, 1}, k \in {-1, 1} :
                input = <<ExponentOp(e), ScaleOp(k), ScaleOp(0 - k), ExponentOp(0 - e)>>)
            => ops = <<>>
        /\ Len(input) = 1 => (ops = input /\ count = 0)

C9_Witness ==
    /\ Returned("CombineOps")
    /\ input = <<ExponentOp(1), ScaleOp(1), ScaleOp(-1), ExponentOp(-1)>>
    /\ count = 2
    /\ ops = <<>>

(***************************************************************************)
(* C10 (as claimed): every constructor or setter call that would leave an  *)
(* OpData with out-of-domain parameters raises, so no live OpData object   *)
(* holds out-of-domain parameters.                                         *)
(***************************************************************************)
\* slope >= 0, power > 0, saturation >= 0: a NaN is none of these
CDLInDomain(d) ==
    /\ \A i \in 1..3 : d.slope[i] # NaN /\ d.slope[i] >= 0
    /\ \A i \in 1..3 : d.power[i] # NaN /\ d.power[i] > 0
    /\ d.sat # NaN /\ d.sat >= 0

\* Rec2100Surround: one parameter in [0.001, 100]; other styles: none
FFInDomain(d) ==
    IF d.style = "REC2100_SURROUND"
    THEN /\ Len(d.params) = 1
         /\ d.params[1] # NaN
         /\ d.params[1] >= low_bound
         /\ d.params[1] <= hi_bound
    ELSE d.params = <<>>

\* the parameter count is wrong, or the parameter is a number outside the bounds
FFOutOfBounds(d) ==
    IF d.style = "REC2100_SURROUND"
    THEN \/ Len(d.params) # 1
         \/ /\ d.params[1] # NaN
            /\ (d.params[1] < low_bound \/ d.params[1] > hi_bound)
    ELSE d.params # <<>>

C10_NoLiveObjectOutOfDomain ==
    /\ cdl # NoObject => CDLInDomain(cdl)
    /\ ff # NoObject => FFInDomain(ff)

(***************************************************************************)
(* C10 (amended): the constructors that take parameters validate them: a   *)
(* construction with out-of-domain parameters raises and leaves no object. *)
(* The setters store their argument without validating and never raise;    *)
(* out-of-domain parameters are reported by validate(): for a CDL exactly  *)
(* when they are out of domain, for a FixedFunction whenever the parameter *)
(* count is wrong or the parameter is below or above its bounds, and never *)
(* when they are in domain.                                                *)
(***************************************************************************)
CDLSetters ==
    {"CDL::setStyle", "CDL::setSlopeParams", "CDL::setOffsetParams",
     "CDL::setPowerParams", "CDL::setSaturation"}

FFSetters == {"FixedFunction::setParams", "FixedFunction::setStyle"}

C10_ValidationAtConstructionAndValidate ==
    /\ lastOp.op = "CDLOpData(...)" =>
            /\ raised <=> ~CDLInDomain(lastOp.arg)
            /\ cdl = IF raised THEN NoObject ELSE lastOp.arg
    /\ lastOp.op = "FixedFunctionOpData(...)" =>
            /\ FFOutOfBounds(lastOp.arg) => raised
            /\ FFInDomain(lastOp.arg) => ~raised
            /\ ff = IF raised THEN NoObject ELSE lastOp.arg
    /\ lastOp.op \in CDLSetters \cup FFSetters => ~raised
    /\ lastOp.op = "CDL::setSlopeParams" => cdl.slope = lastOp.arg
    /\ lastOp.op = "CDL::setPowerParams" => cdl.power = lastOp.arg
    /\ lastOp.op = "CDL::setSaturation" => cdl.sat = lastOp.arg
    /\ lastOp.op = "FixedFunction::setParams" => ff.params = lastOp.arg
    /\ lastOp.op = "FixedFunction::setStyle" => ff.style = lastOp.arg
    /\ lastOp.op = "CDL::validate" => (raised <=> ~CDLInDomain(cdl))
    /\ lastOp.op = "FixedFunction::validate" =>
            /\ FFOutOfBounds(ff) => raised
            /\ FFInDomain(ff) => ~raised

C10_Witness ==
    /\ lastOp.op = "CDL::setSlopeParams"
    /\ lastOp.arg = <<1, 1, -1>>
    /\ ~raised
    /\ cdl.slope = <<1, 1, -1>>
    /\ ~CDLInDomain(cdl)

(***************************************************************************)
(* C11 (as claimed): CDLOpData::validate() raises exactly when some slope  *)
(* channel is < 0, some power channel is <= 0 or the saturation is < 0.    *)
(***************************************************************************)
C11_RaisesExactlyBelowTheThresholds ==
    lastOp.op = "CDL::validate" =>
        (raised <=> \/ \E i \in 1..3 : cdl.slope[i] < 0 /\ cdl.slope[i] # NaN
                    \/ \E i \in 1..3 : cdl.power[i] <= 0 /\ cdl.power[i] # NaN
                    \/ cdl.sat < 0 /\ cdl.sat # NaN)

(***************************************************************************)
(* C11 (amended): CDLOpData::validate() raises exactly when some slope     *)
(* channel is not >= 0 (negative or NaN), some power channel is not > 0    *)
(* (zero, negative or NaN) or the saturation is not >= 0 (negative or      *)
(* NaN); the offset is unbounded; slope = 0 and saturation = 0 are         *)
(* accepted, power = 0 is rejected; validate() never changes the object.   *)
(***************************************************************************)
C11_RaisesExactlyOutsideTheDomain ==
    /\ [](lastOp.op = "CDL::validate" =>
            /\ raised <=> ~CDLInDomain(cdl)
            /\ (\E i \in 1..3 : cdl.power[i] = 0) => raised
            /\ (/\ \A i \in 1..3 : cdl.slope[i] = 0
                /\ cdl.sat = 0
                /\ \A i \in 1..3 : cdl.power[i] # NaN /\ cdl.power[i] > 0)
                    => ~raised)
    /\ [][lastOp'.op = "CDL::validate" => cdl' = cdl]_vars

C11_Witness ==
    /\ lastOp.op = "CDL::validate"
    /\ cdl.slope = ChannelParams(0)
    /\ cdl.sat = 0
    /\ cdl.offset = ChannelParams(-1)
    /\ cdl.power = ChannelParams(1)
    /\ ~raised

(***************************************************************************)
(* C12: FixedFunctionOpData::validate() accepts a Rec2100Surround style    *)
(* exactly when it has one parameter p with 0.001 <= p <= 100 and every    *)
(* other style exactly when it has no parameter; the parameter count is    *)
(* checked before the bounds; p < 0.001 raises "less than lower bound",    *)
(* p > 100 raises "greater than upper bound".                              *)
(***************************************************************************)
C12_AcceptsExactlyTheDomain ==
    lastOp.op = "FixedFunction::validate" =>
        /\ raised <=> ~FFInDomain(ff)
        /\ lastOp.what = "ok" <=> ~raised
        /\ (ff.style = "REC2100_SURROUND" /\ Len(ff.params) # 1)
                => lastOp.what = "must have one parameter"
        /\ (ff.style = "REC2100_SURROUND" /\ Len(ff.params) = 1
                /\ ff.params[1] # NaN /\ ff.params[1] < low_bound)
                => lastOp.what = "less than lower bound"
        /\ (ff.style = "REC2100_SURROUND" /\ Len(ff.params) = 1
                /\ ff.params[1] # NaN /\ ff.params[1] > hi_bound)
                => lastOp.what = "greater than upper bound"

(***************************************************************************)
(* C13: CDLOpData::isNoOp() holds exactly when slope = 1, offset = 0,      *)
(* power = 1 on all channels, saturation = 1 and the style is noClampFwd   *)
(* or noClampRev; isIdentity() holds exactly when the parameters are those *)
(* of the identity, whatever the style.                                    *)
(***************************************************************************)
IdentityParameters(d) ==
    /\ \A i \in 1..3 : d.slope[i] = 1 /\ d.offset[i] = 0 /\ d.power[i] = 1
    /\ d.sat = 1

C13_NoOpIsNonClampingIdentity ==
    /\ lastOp.op = "CDL::isNoOp" =>
            (lastOp.result <=> /\ IdentityParameters(cdl)
                               /\ cdl.style \in {"noClampFwd", "noClampRev"})
    /\ lastOp.op = "CDL::isIdentity" =>
            (lastOp.result <=> IdentityParameters(cdl))

C13_Witness ==
    /\ lastOp.op = "CDL::isNoOp"
    /\ cdl.style = "v1.2_Rev"
    /\ CDL_isIdentity(cdl)
    /\ lastOp.result = FALSE

(***************************************************************************)
(* C14 (as claimed): inverse() returns a copy whose numeric parameters     *)
(* equal the original's.                                                   *)
(***************************************************************************)
C14_InverseKeepsParameters ==
    /\ lastOp.op = "CDL::inverse" =>
            /\ lastOp.result.slope = cdl.slope
            /\ lastOp.result.offset = cdl.offset
            /\ lastOp.result.power = cdl.power
            /\ lastOp.result.sat = cdl.sat
    /\ (lastOp.op = "FixedFunction::inverse" /\ ~raised) =>
            lastOp.result.params = ff.params

(***************************************************************************)
(* C14 (amended): inverse() leaves the original unmodified.  CDL: the copy *)
(* has the inverse style (v1.2 fwd <-> rev, noClamp fwd <-> rev) and the   *)
(* original's slope, offset, power and saturation.  FixedFunction: for a   *)
(* Fwd / Inv style the copy has the other style of the pair and the same   *)
(* (empty) parameter vector; for Rec2100Surround the copy keeps the style  *)
(* and holds 1/p in place of the parameter p; inverse() raises, and        *)
(* returns no copy, when the original does not pass validate().            *)
(***************************************************************************)
OtherStyleOfPair(style) ==
    CASE style = "v1.2_Fwd" -> "v1.2_Rev"
      [] style = "v1.2_Rev" -> "v1.2_Fwd"
      [] style = "noClampFwd" -> "noClampRev"
      [] style = "noClampRev" -> "noClampFwd"
      [] style = "ACES_RED_MOD_03_FWD" -> "ACES_RED_MOD_03_INV"
      [] style = "ACES_RED_MOD_03_INV" -> "ACES_RED_MOD_03_FWD"
      [] style = "ACES_RED_MOD_10_FWD" -> "ACES_RED_MOD_10_INV"
      [] style = "ACES_RED_MOD_10_INV" -> "ACES_RED_MOD_10_FWD"
      [] style = "ACES_GLOW_03_FWD" -> "ACES_GLOW_03_INV"
      [] style = "ACES_GLOW_03_INV" -> "ACES_GLOW_03_FWD"
      [] style = "ACES_GLOW_10_FWD" -> "ACES_GLOW_10_INV"
      [] style = "ACES_GLOW_10_INV" -> "ACES_GLOW_10_FWD"
      [] style = "ACES_DARK_TO_DIM_10_FWD" -> "ACES_DARK_TO_DIM_10_INV"
      [] style = "ACES_DARK_TO_DIM_10_INV" -> "ACES_DARK_TO_DIM_10_FWD"

C14_InverseFlipsStyleOrInvertsParameter ==
    /\ [](lastOp.op = "CDL::inverse" =>
            /\ ~raised
            /\ lastOp.result.style = OtherStyleOfPair(cdl.style)
            /\ lastOp.result.slope = cdl.slope
            /\ lastOp.result.offset = cdl.offset
            /\ lastOp.result.power = cdl.power
            /\ lastOp.result.sat = cdl.sat)
    /\ [](lastOp.op = "FixedFunction::inverse" =>
            /\ raised => (~FFInDomain(ff) /\ lastOp.result = NoObject)
            /\ FFOutOfBounds(ff) => raised
            /\ (~raised /\ ff.style # "REC2100_SURROUND") =>
                    /\ lastOp.result.style = OtherStyleOfPair(ff.style)
                    /\ lastOp.result.params = ff.params
                    /\ ff.params = <<>>
            /\ (~raised /\ ff.style = "REC2100_SURROUND") =>
                    /\ lastOp.result.style = ff.style
                    /\ Len(lastOp.result.params) = 1
                    /\ IF ff.params[1] = NaN
                       THEN lastOp.result.params[1] = NaN
                       ELSE lastOp.result.params[1] * ff.params[1] = 1000000)
    /\ [][lastOp'.op \in {"CDL::inverse", "FixedFunction::inverse"}
            => (cdl' = cdl /\ ff' = ff)]_vars

C14_Witness ==
    /\ lastOp.op = "FixedFunction::inverse"
    /\ ~raised
    /\ ff = FixedFunctionOpData(<<2000>>, "REC2100_SURROUND")
    /\ lastOp.result = FixedFunctionOpData(<<500>>, "REC2100_SURROUND")

(***************************************************************************)
(* Vocabulary of the GPU processor claims.                                 *)
(***************************************************************************)
\* thread t has returned from the call
ReturnedFrom(t, call) == thr[t].pc = "idle" /\ thr[t].call = call

\* the op is an exposure/contrast op whose parameter of that kind was made
\* dynamic
MadeDynamic(op, kind) == op.type = "ExposureContrast" /\ kind \in op.dynamic

\* the list finalize produces from rawOps
FinalizedOps == OptimizeOpVecLoop(rawOps, 0)

\* C15: getDynamicProperty(kind) returns the property of the first op of the
\* list it scans that made that kind dynamic, and raises, substituting
\* nothing, exactly when no op of the list did, an op having the parameter
\* without having made it dynamic not counting.
C15_LookupReturnsFirstExposingOpOrRaises ==
    \A t \in Threads :
        ReturnedFrom(t, "getDynamicProperty") =>
            LET r == thr[t].ret
            IN /\ r.r = "property" =>
                    /\ MadeDynamic(r.seen[r.index], r.kind)
                    /\ \A j \in 1..(r.index - 1) : ~MadeDynamic(r.seen[j], r.kind)
                    /\ r.handle = <<OwnerOf(r.seen[r.index], r.kind), r.kind>>
                    /\ ~thr[t].raised
               /\ r.r = "exception" =>
                    /\ \A j \in 1..Len(r.seen) : ~MadeDynamic(r.seen[j], r.kind)
                    /\ thr[t].raised

C15_Witness ==
    \E t, u \in Threads :
        /\ Finalized
        /\ ReturnedFrom(t, "getDynamicProperty")
        /\ thr[t].ret.r = "exception"
        /\ thr[t].ret.seen = m_ops
        /\ \E j \in 1..Len(m_ops) : m_ops[j].type = "ExposureContrast"
        /\ ReturnedFrom(u, "getDynamicProperty")
        /\ thr[u].ret.r = "property"
        /\ thr[u].ret.index = 2

\* C16: when the processor renders after finalization, an op whose parameter
\* was not made dynamic uses its initial value whatever was set, and all the
\* ops that made a kind dynamic use one value, the last one set through the
\* handle of that kind; there is one handle per kind.
C16_SetValueReachesExactlyTheSharingOps ==
    \A t \in Threads :
        ReturnedFrom(t, "apply") =>
            LET r == thr[t].ret
                ecs == {j \in 1..Len(r.seen) : r.seen[j].type = "ExposureContrast"}
            IN \A kind \in PropertyKinds :
                /\ \A j \in ecs :
                    ~MadeDynamic(r.seen[j], kind) =>
                        r.used[j][kind] =
                            (IF kind = "EXPOSURE" THEN r.seen[j].p ELSE r.seen[j].gamma)
                /\ \A j, k \in ecs :
                    (MadeDynamic(r.seen[j], kind) /\ MadeDynamic(r.seen[k], kind)) =>
                        r.used[j][kind] = r.used[k][kind]
                /\ \A h \in DOMAIN r.set :
                    (h[2] = kind /\ r.set[h] # 0) =>
                        \A j \in ecs :
                            MadeDynamic(r.seen[j], kind) => r.used[j][kind] = r.set[h]

C16_Witness ==
    \E t \in Threads :
        /\ ReturnedFrom(t, "apply")
        /\ Len(thr[t].ret.seen) = 3
        /\ ~MadeDynamic(thr[t].ret.seen[1], "EXPOSURE")
        /\ MadeDynamic(thr[t].ret.seen[2], "EXPOSURE")
        /\ MadeDynamic(thr[t].ret.seen[3], "EXPOSURE")
        /\ \E h \in DOMAIN thr[t].ret.set :
            /\ thr[t].ret.set[h] = 3
            /\ thr[t].ret.used[2]["EXPOSURE"] = 3
            /\ thr[t].ret.used[3]["EXPOSURE"] = 3
        /\ thr[t].ret.used[1]["EXPOSURE"] = 1

\* C17: whatever the interleaving of finalize, extractGpuShaderInfo,
\* getDynamicProperty, getCacheID and hasChannelCrosstalk, an accessor never
\* reads the op list while it is written, never sees a list other than the
\* empty one of before finalize or the finalized one, and never gets a cache
\* id or a crosstalk flag that is not the one of the list in place at that
\* moment.
C17_AccessorsSeeOnlyFinalizedState ==
    \A t \in Threads :
        (thr[t].pc = "idle" /\ thr[t].call \in
            {"getDynamicProperty", "getCacheID", "hasChannelCrosstalk"}) =>
            LET r == thr[t].ret
            IN /\ r.r # "undefined"
               /\ r.seen = <<>> \/ r.seen = FinalizedOps
               /\ r.r = "cacheID" =>
                    IF r.value = NoCacheID THEN r.seen = <<>>
                    ELSE r.value.ops = r.seen
               /\ (r.r = "crosstalk" /\ r.seen # <<>>) =>
                    r.value = HasChannelCrosstalkOf(r.seen)

\* C18: no step of extractGpuShaderInfo, legacy or not, changes the
\* processor's op sequence, cache id or crosstalk flag, and while an
\* extraction runs on a finalized processor they are what finalize computed
\* from the raw ops; the legacy path rewrites only its working sequence.
C18_ExtractionLeavesFinalizedStateAlone ==
    /\ [](\A t \in Threads :
            (thr[t].call = "extractGpuShaderInfo" /\ thr[t].pc # "idle"
             /\ m_cacheID # NoCacheID) =>
                /\ m_ops = FinalizedOps
                /\ m_cacheID.ops = m_ops
                /\ m_hasChannelCrosstalk = HasChannelCrosstalkOf(m_ops))
    /\ [][(\E t \in Threads :
            thr'[t] # thr[t] /\ thr'[t].call = "extractGpuShaderInfo") =>
                (m_ops' = m_ops /\ m_cacheID' = m_cacheID
                 /\ m_hasChannelCrosstalk' = m_hasChannelCrosstalk)]_vars

C18_Witness ==
    \E t \in Threads :
        /\ ReturnedFrom(t, "extractGpuShaderInfo")
        /\ thr[t].ret.r = "shader"
        /\ thr[t].legacy
        /\ thr[t].done = 2
        /\ m_cacheID # NoCacheID
        /\ m_ops # <<>>
        /\ thr[t].gpuOps # m_ops
        /\ m_ops = FinalizedOps

\* the steps of a legacy extraction before code generation
LegacySetup ==
    <<"partition", "finalizeLattice", "create3DLut", "rebuild", "optimize",
      "finalize">>

\* the steps of a whole legacy extraction that generates code for n ops
LegacySteps(n) ==
    LegacySetup \o [i \in 1..n |-> "code"] \o <<"header", "footer", "descFinalize">>

\* thread t is in, or has returned without exception from, a legacy extraction
InLegacyExtraction(t) ==
    thr[t].call = "extractGpuShaderInfo" /\ thr[t].legacy /\ ~thr[t].raised

\* the order of a legacy extraction, whatever Create3DLut returned: the split
\* is contiguous and in order, the working sequence is prefix, baked ops,
\* suffix, then optimized; every step so far is the next step of the order
LegacyOrder(t) ==
    LET r == thr[t]
        n == Len(r.events)
    IN /\ (n >= 1 /\ r.pc # "idle") =>
            r.parts.pre \o r.parts.lattice \o r.parts.post = m_ops
       /\ r.pc = "x_optimize" =>
            r.gpuOps = r.parts.pre \o r.gpuLut \o r.parts.post
       /\ n >= 6 =>
            /\ r.gpuOps = OptimizeOpVecLoop(r.parts.pre \o r.gpuLut \o r.parts.post, 0)
            /\ r.events = SubSeq(LegacySteps(Len(r.gpuOps)), 1, n)
            /\ r.coded = SubSeq(r.gpuOps, 1, Len(r.coded))
       /\ n < 6 => r.events = SubSeq(LegacySetup, 1, n) /\ r.coded = <<>>
       /\ (r.pc = "idle" /\ r.ret.r = "shader") =>
            /\ r.events = LegacySteps(Len(r.gpuOps))
            /\ r.coded = r.gpuOps

C20_GeneratorExceptionPropagatesAndUnlocks ==
    \A t \in Threads :
        (ReturnedFrom(t, "extractGpuShaderInfo") /\ thr[t].raised) =>
            /\ thr[t].ret.r = "exception"
            /\ Len(thr[t].coded) < Len(thr[t].gpuOps)
            /\ thr[t].coded = SubSeq(thr[t].gpuOps, 1, Len(thr[t].coded))
            /\ \A i \in 1..Len(thr[t].events) :
                thr[t].events[i] \notin {"header", "footer", "descFinalize"}
            /\ m_mutex # t

C20_Witness ==
    \E t \in Threads :
        /\ thr[t].prevRaised = "extractGpuShaderInfo"
        /\ thr[t].call \in {"extractGpuShaderInfo", "finalize"}
        /\ m_mutex = t

(***************************************************************************)
(* Vocabulary of the fixed-point claims.                                   *)
(***************************************************************************)
HasNoOp(w) == \E i \in 1..Len(w) : Op_isNoOp(w[i])

HasInversePair(w) ==
    \E i \in 1..(Len(w) - 1) :
        Op_isSameType(w[i], w[i + 1]) /\ Op_isInverse(w[i], w[i + 1])

HasCombinablePair(w) ==
    \E i \in 1..(Len(w) - 1) : Op_canCombineWith(w[i], w[i + 1])

\* a is b with some elements erased
RECURSIVE IsSubsequence(_, _)
IsSubsequence(a, b) ==
    IF a = <<>> THEN TRUE
    ELSE IF b = <<>> THEN FALSE
    ELSE IF Head(a) = Head(b) THEN IsSubsequence(Tail(a), Tail(b))
    ELSE IsSubsequence(a, Tail(b))

\* C24: when OptimizeOpVec leaves its loop on a pass that changed nothing
\* and the separable-prefix stage replaces nothing, the result holds no
\* no-op, no adjacent same-type inverse pair and no adjacent combinable pair.
C24_EarlyStopLeavesLocalFixedPoint ==
    (Returned("OptimizeOpVec") /\ loopExit = "break" /\ ops = afterLoop) =>
        /\ ~HasNoOp(ops)
        /\ ~HasInversePair(ops)
        /\ ~HasCombinablePair(ops)

C24_Witness ==
    /\ Returned("OptimizeOpVec")
    /\ loopExit = "break"
    /\ ops = afterLoop
    /\ bodyRuns >= 2
    /\ Len(ops) >= 2
    /\ Len(ops) < Len(input)

\* C25: when RemoveInverseOps returns, no two adjacent ops of the sequence
\* are same-type and mutually inverse, whatever the input and wherever the
\* erasures brought ops together.
C25_NoInversePairSurvivesOneCall ==
    Returned("RemoveInverseOps") => ~HasInversePair(ops)

C25_Witness ==
    /\ Returned("RemoveInverseOps")
    /\ count >= 2
    /\ ops # <<>>
    /\ ~HasInversePair(ops)

\* C27: RemoveNoOps and RemoveInverseOps return a subsequence of their
\* input; after RemoveNoOps no op is a no-op and the count is the number of
\* erased ops; after RemoveInverseOps the length has decreased by twice the
\* count.
C27_ScansOnlyEraseAndCountErasures ==
    /\ Returned("RemoveNoOps") =>
        /\ IsSubsequence(ops, input)
        /\ ~HasNoOp(ops)
        /\ count = Len(input) - Len(ops)
    /\ Returned("RemoveInverseOps") =>
        /\ IsSubsequence(ops, input)
        /\ Len(input) - Len(ops) = 2 * count

C27_Witness ==
    /\ Returned("RemoveNoOps")
    /\ count = 2
    /\ Len(ops) = 1
    /\ Op_isNoOp(input[1])
    /\ Op_isNoOp(input[2])

\* C28: after OptimizeSeparablePrefix returns at a baking bit depth there is
\* no prefix left to bake, and a second application at the same bit depth
\* returns its input unchanged.
C28_SeparablePrefixIsIdempotent ==
    Returned("OptimizeSeparablePrefix") =>
        /\ BakingDepth(inBitDepth) => FindSeparablePrefix(ops) = 0
        /\ calls >= 2 => ops = input

C28_Witness ==
    /\ Returned("OptimizeSeparablePrefix")
    /\ calls = 2
    /\ BakingDepth(inBitDepth)
    /\ Len(input) >= 2
    /\ input[1] = ComposedLut(inBitDepth)
    /\ ops = input

\* C29: whenever inverse() returns an object for a FixedFunctionOpData, that
\* object passes validate(); for REC2100_SURROUND its parameter is again
\* within the bounds.
C29_InverseOfValidIsValid ==
    (lastOp.op = "FixedFunction::inverse" /\ ~raised) =>
        FF_validate(lastOp.result) = "ok"

\* C30: in a legacy extraction with an empty interior Create3DLut returns no
\* op, and the working sequence that is re-optimized and code-generated is
\* prefix followed by suffix, with no 3D-LUT op baked from a lattice; with a
\* non-empty interior exactly one 3D-LUT op, baked from the interior, stands
\* between prefix and suffix.
C30_LutOpExactlyForNonEmptyInterior ==
    \A t \in Threads :
        (InLegacyExtraction(t) /\ Len(thr[t].events) >= 3) =>
            LET r == thr[t]
            IN IF r.parts.lattice = <<>>
               THEN /\ r.gpuLut = <<>>
                    /\ r.pc = "x_optimize" => r.gpuOps = r.parts.pre \o r.parts.post
                    /\ Len(r.events) >= 6 =>
                        r.gpuOps = OptimizeOpVecLoop(r.parts.pre \o r.parts.post, 0)
                    /\ \A i \in 1..Len(r.coded) :
                        r.coded[i].type = "Lut3D" => r.coded[i].baked = <<>>
               ELSE /\ Len(r.gpuLut) = 1
                    /\ r.gpuLut[1].type = "Lut3D"
                    /\ r.gpuLut[1].baked = r.parts.lattice
                    /\ r.pc = "x_optimize" =>
                        /\ Len(r.gpuOps) = Len(r.parts.pre) + 1 + Len(r.parts.post)
                        /\ SubSeq(r.gpuOps, 1, Len(r.parts.pre)) = r.parts.pre
                        /\ r.gpuOps[Len(r.parts.pre) + 1] = r.gpuLut[1]
                        /\ SubSeq(r.gpuOps, Len(r.parts.pre) + 2, Len(r.gpuOps))
                            = r.parts.post

C30_Witness ==
    \E t \in Threads :
        /\ InLegacyExtraction(t)
        /\ thr[t].pc = "idle"
        /\ thr[t].ret.r = "shader"
        /\ thr[t].parts.lattice = <<>>
        /\ Len(thr[t].parts.pre) = 2
        /\ thr[t].gpuLut = <<>>
        /\ thr[t].coded = thr[t].parts.pre

\* C26: every call of CombineOps returns, whatever canCombineWith and
\* combineWith answer: the cursor reaches the end of the sequence.
C26_CombineOpsTerminates ==
    (pc = "CombineOps") ~> (pc = "idle")

\* the renderer classes that clamp to a lower bound
LowerClampingRenderers ==
    {"RangeScaleMinMaxRenderer", "RangeScaleMinRenderer",
     "RangeMinMaxRenderer", "RangeMinRenderer"}

\* the renderer classes that clamp to an upper bound only
UpperOnlyRenderers == {"RangeScaleMaxRenderer", "RangeMaxRenderer"}

\* the renderer has been applied to the pixel
Rendered == renderer # NoObject /\ outImg # <<>>

\* C21: a Range renderer with a lower bound (with or without an upper bound,
\* with or without scale and offset) maps a NaN in R, G or B to the lower
\* bound; a renderer with an upper bound only maps it to the upper bound; the
\* renderer that does not clamp leaves it a NaN.
C21_NaNBecomesLowerBoundOrElseUpperBound ==
    Rendered =>
        \A i \in 1..3 :
            inImg[i] = NaN =>
                /\ renderer.class \in LowerClampingRenderers =>
                       outImg[i] = range.minOut /\ ~minIsEmpty(range)
                /\ renderer.class \in UpperOnlyRenderers =>
                       outImg[i] = range.maxOut /\ ~maxIsEmpty(range)
                /\ renderer.class = "RangeScaleRenderer" => outImg[i] = NaN

C21_Witness ==
    /\ Rendered
    /\ renderer.class = "RangeScaleMaxRenderer"
    /\ inImg[1] = NaN
    /\ outImg[1] = range.maxOut
    /\ outImg[1] = 2

\* C21 as stated: every Range renderer that clamps maps a NaN in R, G or B
\* to the lower bound of the Range.
C21_NaNBecomesLowerBound ==
    (Rendered /\ renderer.class \in LowerClampingRenderers \cup UpperOnlyRenderers)
        => \A i \in 1..3 :
               inImg[i] = NaN =>
                   outImg[i] = range.minOut /\ ~minIsEmpty(range)

\* C22: every Range CPU renderer writes the input alpha to the output alpha,
\* whatever the alpha (finite, NaN, infinite), the scale, the offset and the
\* bounds are, and every statement of the Range shader text assigns and reads
\* the .rgb components only.
C22_AlphaIsUntouched ==
    /\ Rendered => outImg[4] = inImg[4]
    /\ \A i \in 1..Len(shaderCode) :
           /\ shaderCode[i].lhs \in {"", ".rgb"}
           /\ shaderCode[i].rhs \in {"", ".rgb"}

C22_Witness ==
    /\ Rendered
    /\ renderer.class = "RangeMinMaxRenderer"
    /\ inImg[4] = NegInf
    /\ outImg[4] = NegInf
    /\ inImg[1] = NegInf
    /\ outImg[1] = range.minOut
    /\ Len(shaderCode) = 3
    /\ shaderCode[2].lhs = ".rgb"

\* the ops the call has appended to the ops it was handed
AllocAppended == SubSeq(allocOps, Len(allocInput) + 1, Len(allocOps))

====
